---- MODULE Spec2Model ----
(***************************************************************************)
(* Model of the jtlogc sensor framework (src/jtlogc.py, src/ti2c.py):      *)
(* the per-sensor back-end threads (sensorbackend.__sensoroneshottask),   *)
(* the global trigger thread (sensorglobaltrigger.__trigger), the log      *)
(* writer thread (datalogger.__logwriter), the per-sensor display threads  *)
(* (sensorfrontend.__sensordisplaytask) and the main thread running the    *)
(* operations of appconfig (gensensorframework, startsensors, stopsensors, *)
(* pausedisplayupdates, resumedisplayupdates, endsensorframework).         *)
(*                                                                         *)
(* Spec     the pipeline of a created framework, from the return of       *)
(*          gensensorframework to the return of endsensorframework.  One   *)
(*          action is one loop iteration of a thread, or one blocking call *)
(*          of it (a queue get, a join).  Time is not modelled: a sleep is *)
(*          a point at which the other threads run, and a conversion of a  *)
(*          sensor ends at any moment after the trigger that started it.   *)
(*          The sample period is the default one (1 s): longer than the    *)
(*          0.25 s window of __trigger and than the slowest conversion, so  *)
(*          no scheduled trigger finds a sensor converting.                *)
(* SpecLog  the same threads up to the join of the log writer in           *)
(*          endsensorframework, in the runs in which the display threads   *)
(*          are not scheduled (their queues only fill): behaviours of the  *)
(*          pipeline, followed over more triggers.                         *)
(* SpecGen  gensensorframework from the creation of the threads on, and    *)
(*          the pipeline up to the first scheduled trigger.                *)
(* SpecAcq  the back-end threads and their sensors alone, with any thread   *)
(*          triggering the sensors and putting messages at any moment.    *)
(* SpecBus  the bus transactions alone, each one split into its begin and  *)
(*          its end, with the lock objects of the "with threading.Lock()"  *)
(*          statements around them.                                        *)
(*                                                                         *)
(* A Sample (address, raw, cooked) is modelled as <<address, c>>, c the    *)
(* number of the conversion that produced raw and cooked: the k-th         *)
(* scheduled trigger starts conversion k, and a conversion not started by  *)
(* a scheduled trigger (power-on, the trigger of gensensorframework) is    *)
(* conversion 0.  A timestamp is modelled as the number of the scheduled   *)
(* trigger that pushed it; the timestamp pushed by endsensorframework is 0.*)
(***************************************************************************)
EXTENDS Integers, Sequences, FiniteSets, TLC

\* ------------------------------------------------------------------ bounds

\* Spec: scheduled triggers fired in one run
MaxTicks == 2
\* Spec: calls of startsensors / stopsensors / pausedisplayupdates /
\* resumedisplayupdates in one run
MaxCmds == 1
\* SpecLog: scheduled triggers fired in one run
MaxTicksLog == 3
\* SpecLog: calls of startsensors / stopsensors in one run
MaxCmdsLog == 1
\* SpecGen: scheduled triggers fired in one run
MaxTicksGen == 1
\* SpecGen: calls of startsensors / stopsensors / pausedisplayupdates /
\* resumedisplayupdates in one run
MaxCmdsGen == 1
\* SpecTrig: scheduled triggers fired in one run
MaxTicksTrig == 3
\* SpecTrig: messages put on the message queue of the trigger thread in one run
MaxMsgsTrig == 2
\* SpecDisp: scheduled triggers fired in one run
MaxTicksDisp == 2
\* SpecDisp: calls of startsensors / pausedisplayupdates / resumedisplayupdates
\* in one run
MaxCmdsDisp == 3
\* SpecHalt: scheduled triggers fired in one run
MaxTicksHalt == 3
\* SpecHalt: calls of startsensors / stopsensors in one run
MaxCmdsHalt == 3
\* SpecFeed: messages put on the message queues of the front-ends in one run
MaxMsgsFeed == 2
\* SpecMsg: scheduled triggers fired in one run
MaxTicksMsg == 2
\* SpecMsg: messages put on message queues in one run
MaxMsgsMsg == 2
\* SpecClock: the units of time that pass in one run
MaxNow == 16
\* SpecClock: messages put on the message queue of the trigger thread
MaxMsgsClock == 3
\* SpecClock: a sample period of at most 0.25 s and one above, in units of time
PeriodShort == 4
PeriodLong == 8
\* SpecAcq: triggers issued to the sensors in one run
MaxConvs == 3
\* SpecAcq: messages put on the message queues of the back-ends in one run
MaxMsgs == 2

\* ------------------------------------------------------- program constants

\* number of configured sensors, len(self.sensor)
NumSensors == 2
\* tempsensor.i2caddress[0]
AddrBase == 104
\* queue.Queue(100): the per-sensor log queues and the timestamp queue
LogQCap == 100
\* queue.Queue(1000): the display queues
DispQCap == 1000
\* queue.Queue(10): the message queues
MsgQCap == 10

Sensors == 1..NumSensors
\* qfileio[len(self.sensor)]: the timestamp queue
TsQ == NumSensors + 1
\* the layout of qmsg
BackMsg(i) == i
DispMsg(i) == NumSensors + i
LogMsg == 2 * NumSensors + 1
TrigMsg == 2 * NumSensors + 2
MsgQs == 1..(2 * NumSensors + 2)

\* the threads that use the bus: the back-end of sensor i is thread i
MainT == NumSensors + 1
TrigT == NumSensors + 2
BusThreads == 1..(NumSensors + 2)

\* self.sensor.address of the i-th configured sensor
Addr(i) == AddrBase + (i - 1)
\* the tuple endsensorframework dumps into each sensor queue: (0,0,0.0)
Sentinel == <<0, 0>>

VARIABLES
    mpc,        \* main thread: where it is in gensensorframework / endsensorframework
    midx,       \* main thread: loop index inside endsensorframework
    cmds,       \* number of lifecycle calls made so far
    released,   \* TRUE once qfileio, qdisplay, qmsg are deleted
    qfileio,    \* qfileio[1..n]: Samples per sensor; qfileio[n+1]: timestamps
    qdisplay,   \* qdisplay[i]: sequence of (raw, cooked) pairs
    qmsg,       \* message queues
    busy,       \* busy[i]: sensor i is converting (status bit 7 set)
    cur,        \* cur[i]: conversion in progress, or latched in the sensor
    ticks,      \* number of scheduled triggers fired
    tpc, tmsg,  \* trigger thread: position, msg
    lpc, lmsg,  \* log writer: position, msg
    lidx,       \* log writer: index of the sensor queue it is waiting on
    timestamp,  \* log writer: the local timestamp
    valsensor,  \* log writer: the local list valsensor
    rows,       \* the data rows written to the log file
    discarded,  \* number of rows the log writer collected and did not write
    bpc,        \* back-end threads: position
    triggered,  \* back-end threads: the local triggered
    dpc, dmsg,  \* display threads: position, msg
    \* history (not read by the program)
    lastobs,    \* last status a back-end observed ("ready" / "busy")
    edges,      \* busy->ready transitions a back-end observed in its main loop
    emitted,    \* Samples a back-end put into its log queue
    dput,       \* pairs a back-end put into its display queue
    convs,      \* conversions of sensor i that ended while its back-end was in its main loop
    ticksAtTd,  \* value of ticks when endsensorframework was called
    sentPushed, \* endsensorframework has completed its sentinel puts
    \* SpecBus
    inbus,      \* threads inside a bus transaction
    held,       \* held[t]: the lock object thread t holds (0: none)
    bpos,       \* bpos[t]: position of thread t around its bus transaction
    \* SpecTrig
    short,      \* the sample period is at most 0.25 s
    unread,     \* history: triggers fired with a message waiting in the message
                \* queue of the trigger thread, since the thread last took one
    \* SpecCfg
    sensorcfg,  \* sensorcfg[s]: slot s is configured (its address is not -1)
    gpc,        \* position of gensensorframework in its two loops
    slot,       \* loop variable s of "for s in sorted(self.sensorcfg['sensors'])"
    tidx,       \* loop variable i of "for i in range(len(self.sensor))"
    sensor,     \* self.sensor: the tempsensor objects
    sensorno,   \* self.sensorno: the slot of each object
    sensorread, \* self.sensorread: the back-ends, by the slot of their sensor
    sensordisp, \* self.sensordisp: the front-ends, by the slot they display
    \* SpecFeed: the front-end objects
    raw,        \* raw[i]: self.raw of the front-end of sensor i
    cookedhist, \* cookedhist[i]: self.cookedhist
    ind,        \* ind[i]: self.ind, counted from 0
    cooked,     \* cooked[i]: self.cooked
    repaints,   \* history: calls of windowrefresh in the present pass of the drain loop
    drained,    \* history: pairs taken in the present pass of the drain loop
    \* SpecClock: the trigger thread with time, in units of 50 ms
    now,        \* time.perf_counter()
    tnext,      \* the local tnext of __trigger
    wake,       \* the end of the time.sleep the trigger thread is in
    period,     \* self.triggertime
    trigs,      \* history: calls of self.sensors.trigger() by the trigger thread
    lastfire,   \* history: time of the last trigger, -1 when the thread has
                \* taken a message since
    gap,        \* history: time between the last two triggers, -1 when there
                \* are no two without a message taken between them
    resetAt,    \* history: time of the last "tnext = time.perf_counter()", -1 if none
    firesSince, \* history: triggers since then
    \* SpecSensor: one tempsensor object and the Sample made from it
    mode,       \* self.mode, 0 .. 3
    units,      \* self.units, 0 .. 2
    slope,      \* self.slope, in 0.05 degree per count
    intercept,  \* self.intercept, in 0.05 degree
    mcpdata,    \* the bytes read_i2c_block_data returns
    sraw,       \* self.raw of the tempsensor
    scooked,    \* self.cooked of the tempsensor, in 0.05 degree
    dataready,  \* what read_status returned: "True", "False", "none" before the call
    sample,     \* the Sample the back-end puts: <<raw, cooked>>, <<>> if none
    strig,      \* the local "triggered" of that back-end
    reads,      \* history: calls of read_status in the loop
    \* SpecFile: the log file of __logwriter, byte by byte
    logfileprefix, \* self.logfileprefix: its characters, each by its width in bytes
    sampleperiod,  \* str(self.sampleperiod): its characters, the same way
    datalog,    \* the bytes of the file, each marked with the line it belongs to
    endstamp,   \* the local endstamp
    fpc,        \* where __logwriter is with the file
    nrows,      \* history: data rows written
    \* SpecPair: one display queue, element by element
    dq,         \* the elements of self.qdisplay[i]: <<push, part>>
    pushes,     \* history: Samples the back-end has begun to put
    backpc,     \* back-end: between its two puts ("mid") or not ("idle")
    tdpc,       \* endsensorframework: "idle", "dummy", "mid", "join"
    feedpc,     \* display thread: "test", "second", "mail", "done"
    feedmsg,    \* display thread: msg
    feedq,      \* the message queue of the display thread
    first,      \* display thread: the element of its first get
    taken,      \* history: the pairs the display thread took
    shown,      \* history: the pairs it put into self.raw / self.cooked
    \* SpecAddr
    cfgaddress, \* sensorcfg['sensors'][s]['address'] of one slot
    i2caddrind, \* tempsensor.i2caddrind
    address,    \* tempsensor.address
    apc,        \* "cfg", "absent", "run" or "ended"
    addrq,      \* the log queue of the sensor: tuples (address, raw, cooked)
    aputs,      \* history: the addresses of the Samples the back-end put
    atook,      \* history: number of Samples the log thread took
    arows,      \* the rows the log thread wrote for this sensor
    \* SpecOpt
    optsensor,  \* get_cfg: the list "sensor" of tempsensor objects
    opts,       \* get_cfg: the sensor index counter "s"
    nopts,      \* history: number of -s options get_cfg has taken
    optpc,      \* "parse", "done", "toomany", "invalid" or "notfound"
    \* SpecLoop
    rates,      \* main: the mode of each sensor get_cfg returned
    sdowncountini, \* main: passes between two reads of each sensor
    sdowncount, \* main: the down counter of each sensor
    scount,     \* main: the counter of samples
    passes,     \* history: passes through the body of the loop
    readat,     \* history: readat[i] = the passes in which sensor i was read
    loglines,   \* history: number of line ends written to the log file
    looppc,     \* "setup", "loop" or "end"
    \* SpecMode
    smode,      \* tempsensor.mode
    modearg,    \* history: the argument of the last set_mode, or of __init__
    modewas,    \* history: tempsensor.mode before the last set_mode
    modecalls,  \* history: number of set_mode calls after __init__
    objpc       \* "class", "built" or "IndexError"

pipevars == <<mpc, midx, cmds, released, qfileio, qdisplay, qmsg, busy, cur, ticks,
              tpc, tmsg, lpc, lmsg, lidx, timestamp, valsensor, rows, discarded,
              bpc, triggered, dpc, dmsg,
              lastobs, edges, emitted, dput, convs, ticksAtTd, sentPushed>>
busvars == <<inbus, held, bpos>>
cfgvars == <<sensorcfg, gpc, slot, tidx, sensor, sensorno, sensorread, sensordisp>>
feedvars == <<raw, cookedhist, ind, cooked, repaints, drained>>
clockvars == <<now, tnext, wake, period, trigs, lastfire, gap, resetAt, firesSince>>
sensvars == <<mode, units, slope, intercept, mcpdata, sraw, scooked, dataready, sample, strig, reads>>
filevars == <<logfileprefix, sampleperiod, datalog, endstamp, fpc, nrows>>
pairvars == <<dq, pushes, backpc, tdpc, feedpc, feedmsg, feedq, first, taken, shown>>
addrvars == <<cfgaddress, i2caddrind, address, apc, addrq, aputs, atook, arows>>
optvars == <<optsensor, opts, nopts, optpc>>
loopvars == <<rates, sdowncountini, sdowncount, scount, passes, readat, loglines, looppc>>
modevars == <<smode, modearg, modewas, modecalls, objpc>>
latevars == <<addrvars, optvars, loopvars, modevars>>
extravars == <<filevars, pairvars, latevars>>
morevars == <<feedvars, clockvars, sensvars, extravars>>
sidevars == <<short, unread, cfgvars, morevars>>
vars == <<pipevars, busvars, sidevars>>

\* ------------------------------------------------------------- queue.Queue

\* Queue.put on queue q of capacity cap blocks while the queue is full
CanPut(q, cap) == Len(q) < cap
\* Queue.empty()
Empty(q) == q = <<>>

\* --------------------------------------------------------------- the state

Msgs == {"r", "h", "q"}

\* the variables of the smaller specifications, where these do not use them:
\* the default sample period (1 s)
\* the sensor slots of the configuration: keys '0' .. '7', one per possible
\* bus address
NumSlots == 8
Slots == 0..(NumSlots - 1)

\* slope and intercept are modelled by the slot whose configured values the
\* object carries; a new tempsensor carries the defaults of its mode
DefaultCal == -1

\* tempsensor(address, modeind, units) for slot s
tempsensor(s) == [slot |-> s, slope |-> DefaultCal, intercept |-> DefaultCal]

\* the result of gensensorframework for a configuration with slots
\* 0 .. NumSensors - 1 present
InitCfgDone ==
    /\ sensorcfg = [s \in Slots |-> s < NumSensors]
    /\ gpc = "done"
    /\ slot = NumSlots
    /\ tidx = NumSensors
    /\ sensor = [k \in 1..NumSensors |-> [slot |-> k - 1, slope |-> k - 1, intercept |-> k - 1]]
    /\ sensorno = [k \in 1..NumSensors |-> k - 1]
    /\ sensorread = [k \in 1..NumSensors |-> k - 1]
    /\ sensordisp = [k \in 1..NumSensors |-> k - 1]

\* the rows of a sensor window that show the history: "self.ysize - 3"
HistLen == 2

\* sensorfrontend.__init__: "self.raw = [0 for ...]", "self.cookedhist = [0 for
\* ...]", "self.ind = 0"; __sensordisplaytask: "self.cooked = 0"
InitFeed ==
    /\ raw = [i \in Sensors |-> [k \in 1..HistLen |-> 0]]
    /\ cookedhist = [i \in Sensors |-> [k \in 1..HistLen |-> 0]]
    /\ ind = [i \in Sensors |-> 0]
    /\ cooked = [i \in Sensors |-> 0]
    /\ repaints = [i \in Sensors |-> 0]
    /\ drained = [i \in Sensors |-> 0]

\* tempsensor.__init__ with mode m, units u, then set_slope(sl) and
\* set_intercept(ic), and bytes d waiting on the bus: "self.raw = 0",
\* "self.cooked = 0"
InitSensAt(m, u, sl, ic, d) ==
    /\ mode = m
    /\ units = u
    /\ slope = sl
    /\ intercept = ic
    /\ mcpdata = d
    /\ sraw = 0
    /\ scooked = 0
    /\ dataready = "none"
    /\ sample = <<>>
    /\ strig = FALSE
    /\ reads = 0

\* the units of time of the default sample period, 1 s
PeriodDefault == 20

\* sensorglobaltrigger.__trigger: "tnext = time.perf_counter() +
\* self.triggertime", no trigger yet
InitClockAt(p) ==
    /\ now = 0
    /\ period = p
    /\ tnext = p
    /\ wake = 0
    /\ trigs = 0
    /\ lastfire = -1
    /\ gap = -1
    /\ resetAt = -1
    /\ firesSince = 0

\* the variables that belong to one specification, as the others hold them
\* datalogger.__init__ with log file prefix p and sample period text sp, before
\* the thread has opened the file
InitFileAt(p, sp) ==
    /\ logfileprefix = p
    /\ sampleperiod = sp
    /\ datalog = <<>>
    /\ endstamp = 0
    /\ fpc = "open"
    /\ nrows = 0

\* one back-end and its display thread, whose msg is m, at the return of
\* gensensorframework or at any later moment with the display queue empty
InitPairAt(m) ==
    /\ dq = <<>>
    /\ pushes = 0
    /\ backpc = "idle"
    /\ tdpc = "idle"
    /\ feedpc = "test"
    /\ feedmsg = m
    /\ feedq = <<>>
    /\ first = <<>>
    /\ taken = <<>>
    /\ shown = <<>>

\* the class attributes of tempsensor before __init__ has run
InitAddrAt(a) ==
    /\ cfgaddress = a
    /\ i2caddrind = -1
    /\ address = 0
    /\ apc = "cfg"
    /\ addrq = <<>>
    /\ aputs = <<>>
    /\ atook = 0
    /\ arows = <<>>

\* get_cfg before its loop over the options
InitOpt ==
    /\ optsensor = <<>>
    /\ opts = 0
    /\ nopts = 0
    /\ optpc = "parse"

\* main with the sensors of modes r, before the down counters are set up
InitLoopAt(r) ==
    /\ rates = r
    /\ sdowncountini = <<>>
    /\ sdowncount = <<>>
    /\ scount = 0
    /\ passes = 0
    /\ readat = [i \in DOMAIN r |-> <<>>]
    /\ loglines = 0
    /\ looppc = "setup"

\* the class attribute "mode = 3" of tempsensor
InitMode ==
    /\ smode = 3
    /\ modearg = 3
    /\ modewas = 3
    /\ modecalls = 0
    /\ objpc = "class"

InitLate == InitAddrAt(-1) /\ InitOpt /\ InitLoopAt(<<3>>) /\ InitMode

InitExtra == InitFileAt(<<1>>, <<1>>) /\ InitPairAt("h") /\ InitLate

InitMore ==
    /\ InitFeed
    /\ InitClockAt(PeriodDefault)
    /\ InitSensAt(3, 0, 5, 0, <<0, 0, 0, 28>>)
    /\ InitExtra

InitSide ==
    /\ short = FALSE
    /\ unread = 0
    /\ InitCfgDone
    /\ InitMore

\* gensensorframework has created the queues and the threads and is about to
\* call self.trigger.trigger(); a sensor may still be converting (stop_sampling
\* in sensorbackend.__init__ writes the configuration byte with bit 7 set)
InitGen ==
    /\ mpc = "gen"
    /\ midx = 1
    /\ cmds = 0
    /\ released = FALSE
    /\ qfileio = [k \in 1..TsQ |-> <<>>]
    /\ qdisplay = [i \in Sensors |-> <<>>]
    /\ qmsg = [m \in MsgQs |-> <<>>]
    \* what a sensor is doing when its back-end thread starts is not known
    /\ busy \in [Sensors -> BOOLEAN]
    /\ cur = [i \in Sensors |-> 0]
    /\ ticks = 0
    /\ tpc = "top"
    /\ tmsg = "h"
    /\ lpc = "top"
    /\ lmsg = "r"
    /\ lidx = 1
    /\ timestamp = 0
    /\ valsensor = [i \in Sensors |-> 0]
    /\ rows = <<>>
    /\ discarded = 0
    /\ bpc = [i \in Sensors |-> "init"]
    /\ triggered = [i \in Sensors |-> FALSE]
    /\ dpc = [i \in Sensors |-> "loop"]
    /\ dmsg = [i \in Sensors |-> "h"]
    /\ lastobs = [i \in Sensors |-> "none"]
    /\ edges = [i \in Sensors |-> 0]
    /\ emitted = [i \in Sensors |-> 0]
    /\ dput = [i \in Sensors |-> 0]
    /\ convs = [i \in Sensors |-> 0]
    /\ ticksAtTd = 0
    /\ sentPushed = FALSE
    /\ inbus = {}
    /\ held = [t \in BusThreads |-> 0]
    /\ bpos = [t \in BusThreads |-> "out"]
    /\ InitSide

\* -------------------------------------------------------------- the sensors

\* tempsensorglobal.trigger: the general call, every device starts conversion c
BroadcastTrigger(c) ==
    /\ busy' = [i \in Sensors |-> TRUE]
    /\ cur' = [i \in Sensors |-> c]

\* the conversion of sensor i ends: the ready bit shows and the result is latched
ConvComplete(i) ==
    /\ busy[i]
    /\ busy' = [busy EXCEPT ![i] = FALSE]
    /\ convs' = [convs EXCEPT ![i] = IF bpc[i] = "run" THEN @ + 1 ELSE @]
    /\ UNCHANGED <<mpc, midx, cmds, released, qfileio, qdisplay, qmsg, cur, ticks,
                   tpc, tmsg, lpc, lmsg, lidx, timestamp, valsensor, rows, discarded,
                   bpc, triggered, dpc, dmsg,
                   lastobs, edges, emitted, dput, ticksAtTd, sentPushed>>
    /\ UNCHANGED <<busvars, sidevars>>

\* tempsensor.read_status: True when the device is not converting
ReadStatus(i) == ~busy[i]

\* ------------------------------------------------------ the back-end thread

\* the first loop of __sensoroneshottask: poll until ready, discard the reading
\* (a poll that reads busy changes nothing)
BackInit(i) ==
    /\ bpc[i] = "init"
    /\ ReadStatus(i)
    /\ bpc' = [bpc EXCEPT ![i] = "run"]
    /\ triggered' = [triggered EXCEPT ![i] = FALSE]
    /\ lastobs' = [lastobs EXCEPT ![i] = "ready"]
    /\ UNCHANGED <<mpc, midx, cmds, released, qfileio, qdisplay, qmsg, busy, cur, ticks,
                   tpc, tmsg, lpc, lmsg, lidx, timestamp, valsensor, rows, discarded,
                   dpc, dmsg, edges, emitted, dput, convs, ticksAtTd, sentPushed>>
    /\ UNCHANGED <<busvars, sidevars>>

\* "if not triggered and not data_ready: triggered = True"
Armed(trig, ready) == trig \/ ~ready

\* a back-end that puts a Sample on every ready status it reads
EmitsOnReady(trig, ready) == ready

\* "if triggered and data_ready:" the Sample is put
Emits(trig, ready) == Armed(trig, ready) /\ ready

\* a back-end that leaves its loop on any message
QuitsOnAny(m) == TRUE

\* "if msg == 'q': break"
Quits(m) == m = "q"

\* one iteration of the main loop of __sensoroneshottask: read the status, put
\* the Sample on a busy->ready edge, take one message
BackIter(i) ==
    LET ready == ReadStatus(i)
        emit == Emits(triggered[i], ready)
        mq == qmsg[BackMsg(i)]
    IN  /\ bpc[i] = "run"
        /\ emit => CanPut(qfileio[i], LogQCap) /\ 2 * Len(qdisplay[i]) + 2 <= DispQCap
        /\ triggered' = [triggered EXCEPT ![i] = IF emit THEN FALSE ELSE Armed(@, ready)]
        /\ qfileio' = [qfileio EXCEPT ![i] = IF emit THEN Append(@, <<Addr(i), cur[i]>>) ELSE @]
        /\ qdisplay' = [qdisplay EXCEPT ![i] = IF emit THEN Append(@, <<cur[i], cur[i]>>) ELSE @]
        /\ emitted' = [emitted EXCEPT ![i] = IF emit THEN @ + 1 ELSE @]
        /\ dput' = [dput EXCEPT ![i] = IF emit THEN @ + 1 ELSE @]
        /\ edges' = [edges EXCEPT ![i] = IF lastobs[i] = "busy" /\ ready THEN @ + 1 ELSE @]
        /\ lastobs' = [lastobs EXCEPT ![i] = IF ready THEN "ready" ELSE "busy"]
        /\ IF Empty(mq)
             THEN UNCHANGED <<qmsg, bpc>>
             ELSE /\ qmsg' = [qmsg EXCEPT ![BackMsg(i)] = Tail(mq)]
                  /\ bpc' = [bpc EXCEPT ![i] = IF Quits(Head(mq)) THEN "done" ELSE @]
        /\ UNCHANGED <<mpc, midx, cmds, released, busy, cur, ticks,
                       tpc, tmsg, lpc, lmsg, lidx, timestamp, valsensor, rows, discarded,
                       dpc, dmsg, convs, ticksAtTd, sentPushed>>
        /\ UNCHANGED <<busvars, sidevars>>

\* ------------------------------------------------------- the display thread

\* one iteration of __sensordisplaytask: drain the display queue (into the
\* history when msg is 'r', to nowhere otherwise), sleep, take one message;
\* msg 'q' ends the thread at the top of the next iteration
DispIter(i) ==
    LET mq == qmsg[DispMsg(i)]
    IN  /\ dpc[i] = "loop"
        /\ qdisplay' = [qdisplay EXCEPT ![i] = <<>>]
        /\ IF Empty(mq)
             THEN UNCHANGED <<qmsg, dmsg, dpc>>
             ELSE /\ qmsg' = [qmsg EXCEPT ![DispMsg(i)] = Tail(mq)]
                  /\ dmsg' = [dmsg EXCEPT ![i] = Head(mq)]
                  /\ dpc' = [dpc EXCEPT ![i] = IF Head(mq) = "q" THEN "done" ELSE @]
        /\ UNCHANGED <<mpc, midx, cmds, released, qfileio, busy, cur, ticks,
                       tpc, tmsg, lpc, lmsg, lidx, timestamp, valsensor, rows, discarded,
                       bpc, triggered,
                       lastobs, edges, emitted, dput, convs, ticksAtTd, sentPushed>>
        /\ UNCHANGED <<busvars, sidevars>>

\* ------------------------------------------------------- the trigger thread

\* __trigger with msg other than 'r' at the top of its loop: nothing to fire
TrigSkip ==
    /\ tpc = "top"
    /\ tmsg # "r"
    /\ tpc' = "inner"
    /\ UNCHANGED <<mpc, midx, cmds, released, qfileio, qdisplay, qmsg, busy, cur, ticks,
                   tmsg, lpc, lmsg, lidx, timestamp, valsensor, rows, discarded,
                   bpc, triggered, dpc, dmsg,
                   lastobs, edges, emitted, dput, convs, ticksAtTd, sentPushed>>
    /\ UNCHANGED <<busvars, sidevars>>

\* __trigger with msg 'r': sleep until tnext, tnext += triggertime, trigger all
\* devices and put the time on the timestamp queue.  The sample period is
\* longer than the slowest conversion (the default period is 1 s, an 18 bit
\* conversion takes 0.267 s): when tnext comes the conversions of the trigger
\* before it have ended
TrigFire(maxt) ==
    /\ tpc = "top"
    /\ tmsg = "r"
    /\ ticks < maxt
    /\ \A i \in Sensors : ~busy[i]
    /\ CanPut(qfileio[TsQ], LogQCap)
    /\ ticks' = ticks + 1
    /\ BroadcastTrigger(ticks + 1)
    /\ qfileio' = [qfileio EXCEPT ![TsQ] = Append(@, ticks + 1)]
    /\ tpc' = "fired"
    /\ UNCHANGED <<mpc, midx, cmds, released, qdisplay, qmsg,
                   tmsg, lpc, lmsg, lidx, timestamp, valsensor, rows, discarded,
                   bpc, triggered, dpc, dmsg,
                   lastobs, edges, emitted, dput, convs, ticksAtTd, sentPushed>>
    /\ unread' = IF Empty(qmsg[TrigMsg]) THEN unread ELSE unread + 1
    /\ UNCHANGED <<busvars, short, cfgvars, morevars>>

\* where __trigger goes after taking message m in its inner loop: 'r' and 'q'
\* break out of it ('q' then ends the thread), anything else stays
TrigAfter(m) == IF m = "q" THEN "done" ELSE IF m = "r" THEN "top" ELSE "inner"

\* one iteration of the inner loop of __trigger: take one message, sleep 0.15
TrigPoll ==
    LET mq == qmsg[TrigMsg]
    IN  /\ tpc = "inner" \/ (tpc = "fired" /\ ~short)
        /\ ~Empty(mq)
        /\ qmsg' = [qmsg EXCEPT ![TrigMsg] = Tail(mq)]
        /\ tmsg' = Head(mq)
        /\ tpc' = TrigAfter(Head(mq))
        /\ UNCHANGED <<mpc, midx, cmds, released, qfileio, qdisplay, busy, cur, ticks,
                       lpc, lmsg, lidx, timestamp, valsensor, rows, discarded,
                       bpc, triggered, dpc, dmsg,
                       lastobs, edges, emitted, dput, convs, ticksAtTd, sentPushed>>
        /\ unread' = 0
        /\ UNCHANGED <<busvars, short, cfgvars, morevars>>

\* right after a trigger tnext is a whole period away, more than 0.25 s: the
\* inner loop runs at least once, here with an empty message queue
TrigWait ==
    /\ tpc = "fired"
    /\ ~short
    /\ Empty(qmsg[TrigMsg])
    /\ tpc' = "inner"
    /\ UNCHANGED <<mpc, midx, cmds, released, qfileio, qdisplay, qmsg, busy, cur, ticks,
                   tmsg, lpc, lmsg, lidx, timestamp, valsensor, rows, discarded,
                   bpc, triggered, dpc, dmsg,
                   lastobs, edges, emitted, dput, convs, ticksAtTd, sentPushed>>
    /\ UNCHANGED <<busvars, sidevars>>

\* with a sample period of at most 0.25 s, after a trigger "tnext -
\* time.perf_counter() > 0.25 or msg != 'r'" is false: the inner loop is not
\* entered, no message is taken, and msg, still 'r', does not end the thread
TrigNoPoll ==
    /\ tpc = "fired"
    /\ short
    /\ tpc' = "top"
    /\ UNCHANGED <<mpc, midx, cmds, released, qfileio, qdisplay, qmsg, busy, cur, ticks,
                   tmsg, lpc, lmsg, lidx, timestamp, valsensor, rows, discarded,
                   bpc, triggered, dpc, dmsg,
                   lastobs, edges, emitted, dput, convs, ticksAtTd, sentPushed>>
    /\ UNCHANGED <<busvars, sidevars>>

\* the inner loop of __trigger ends when msg is 'r' and tnext is less than
\* 0.25 s away (the tick budget of the model caps the passing of time)
TrigDue(maxt) ==
    /\ tpc = "inner"
    /\ tmsg = "r"
    /\ ticks < maxt
    /\ tpc' = "top"
    /\ UNCHANGED <<mpc, midx, cmds, released, qfileio, qdisplay, qmsg, busy, cur, ticks,
                   tmsg, lpc, lmsg, lidx, timestamp, valsensor, rows, discarded,
                   bpc, triggered, dpc, dmsg,
                   lastobs, edges, emitted, dput, convs, ticksAtTd, sentPushed>>
    /\ UNCHANGED <<busvars, sidevars>>

\* ---------------------------------------------------------- the log writer

\* a log writer that runs whatever message it took last
RunningAlways(msg) == TRUE

\* "if msg == 'r':" the log writer is running; with any other msg it is halted
Running(msg) == msg = "r"

\* "timestamp = self.qfileio[len(self.qfileio)-1].get()": blocks while empty
LogTakeTs ==
    /\ lpc = "top"
    /\ Running(lmsg)
    /\ ~Empty(qfileio[TsQ])
    /\ timestamp' = Head(qfileio[TsQ])
    /\ qfileio' = [qfileio EXCEPT ![TsQ] = Tail(@)]
    /\ lidx' = 1
    /\ lpc' = "samples"
    /\ UNCHANGED <<mpc, midx, cmds, released, qdisplay, qmsg, busy, cur, ticks,
                   tpc, tmsg, lmsg, valsensor, rows, discarded,
                   bpc, triggered, dpc, dmsg,
                   lastobs, edges, emitted, dput, convs, ticksAtTd, sentPushed>>
    /\ UNCHANGED <<busvars, sidevars>>

\* "if valsensor[0][0] != 0": the row is written
Writes(vals) == vals[1][1] # 0

\* "valsensor[i] = self.qfileio[i].get()": blocks while empty; after the last
\* one the row is written, or not
LogTakeSample ==
    LET vals == [valsensor EXCEPT ![lidx] = Head(qfileio[lidx])]
    IN  /\ lpc = "samples"
        /\ ~Empty(qfileio[lidx])
        /\ valsensor' = vals
        /\ qfileio' = [qfileio EXCEPT ![lidx] = Tail(@)]
        /\ IF lidx < NumSensors
             THEN /\ lidx' = lidx + 1
                  /\ UNCHANGED <<lpc, rows, discarded>>
             ELSE /\ lidx' = 1
                  /\ lpc' = "mail"
                  /\ rows' = IF Writes(vals)
                               THEN Append(rows, [ts |-> timestamp, vals |-> vals])
                               ELSE rows
                  /\ discarded' = IF Writes(vals) THEN discarded ELSE discarded + 1
        /\ UNCHANGED <<mpc, midx, cmds, released, qdisplay, qmsg, busy, cur, ticks,
                       tpc, tmsg, lmsg, timestamp,
                       bpc, triggered, dpc, dmsg,
                       lastobs, edges, emitted, dput, convs, ticksAtTd, sentPushed>>
        /\ UNCHANGED <<busvars, sidevars>>

\* msg other than 'r': "time.sleep(self.sampleperiod)"
LogSleep ==
    /\ lpc = "top"
    /\ ~Running(lmsg)
    /\ lpc' = "mail"
    /\ UNCHANGED <<mpc, midx, cmds, released, qfileio, qdisplay, qmsg, busy, cur, ticks,
                   tpc, tmsg, lmsg, lidx, timestamp, valsensor, rows, discarded,
                   bpc, triggered, dpc, dmsg,
                   lastobs, edges, emitted, dput, convs, ticksAtTd, sentPushed>>
    /\ UNCHANGED <<busvars, sidevars>>

\* "check for supervisor message": take one if there is one, 'q' ends the thread
LogMail ==
    LET mq == qmsg[LogMsg]
    IN  /\ lpc = "mail"
        /\ IF Empty(mq)
             THEN /\ lpc' = "top"
                  /\ UNCHANGED <<qmsg, lmsg>>
             ELSE /\ qmsg' = [qmsg EXCEPT ![LogMsg] = Tail(mq)]
                  /\ lmsg' = Head(mq)
                  /\ lpc' = IF Head(mq) = "q" THEN "done" ELSE "top"
        /\ UNCHANGED <<mpc, midx, cmds, released, qfileio, qdisplay, busy, cur, ticks,
                       tpc, tmsg, lidx, timestamp, valsensor, rows, discarded,
                       bpc, triggered, dpc, dmsg,
                       lastobs, edges, emitted, dput, convs, ticksAtTd, sentPushed>>
        /\ UNCHANGED <<busvars, sidevars>>

\* --------------------------------------------------------- the main thread

\* the end of gensensorframework: "self.trigger.trigger()"
GenTrigger ==
    /\ mpc = "gen"
    /\ BroadcastTrigger(0)
    /\ mpc' = "settle"
    /\ UNCHANGED <<midx, cmds, released, qfileio, qdisplay, qmsg, ticks,
                   tpc, tmsg, lpc, lmsg, lidx, timestamp, valsensor, rows, discarded,
                   bpc, triggered, dpc, dmsg,
                   lastobs, edges, emitted, dput, convs, ticksAtTd, sentPushed>>
    /\ UNCHANGED <<busvars, sidevars>>

\* "time.sleep(0.267)": as long as the longest conversion (1 / 3.75 Hz), so the
\* conversions the trigger started have ended when gensensorframework returns
GenSettle ==
    /\ mpc = "settle"
    /\ \A i \in Sensors : ~busy[i]
    /\ mpc' = "idle"
    /\ UNCHANGED <<midx, cmds, released, qfileio, qdisplay, qmsg, busy, cur, ticks,
                   tpc, tmsg, lpc, lmsg, lidx, timestamp, valsensor, rows, discarded,
                   bpc, triggered, dpc, dmsg,
                   lastobs, edges, emitted, dput, convs, ticksAtTd, sentPushed>>
    /\ UNCHANGED <<busvars, sidevars>>

\* a pause that puts its message on every message queue
EveryQ == MsgQs

\* the message queues a broadcast of startsensors / stopsensors goes to
AllQs == MsgQs
\* the message queues pausedisplayupdates / resumedisplayupdates put to
DispQs == {DispMsg(i) : i \in Sensors}

\* put message m on every queue of qs
Broadcast(qs, m) ==
    /\ \A k \in qs : CanPut(qmsg[k], MsgQCap)
    /\ qmsg' = [k \in MsgQs |-> IF k \in qs THEN Append(qmsg[k], m) ELSE qmsg[k]]

\* startsensors, stopsensors, pausedisplayupdates, resumedisplayupdates
Lifecycle(qs, m, maxc) ==
    /\ mpc = "idle"
    /\ cmds < maxc
    /\ cmds' = cmds + 1
    /\ Broadcast(qs, m)
    /\ UNCHANGED <<mpc, midx, released, qfileio, qdisplay, busy, cur, ticks,
                   tpc, tmsg, lpc, lmsg, lidx, timestamp, valsensor, rows, discarded,
                   bpc, triggered, dpc, dmsg,
                   lastobs, edges, emitted, dput, convs, ticksAtTd, sentPushed>>
    /\ UNCHANGED <<busvars, sidevars>>

StartSensors(maxc) == Lifecycle(AllQs, "r", maxc)
StopSensors(maxc) == Lifecycle(AllQs, "h", maxc)
PauseDisplay(maxc) == Lifecycle(DispQs, "h", maxc)
ResumeDisplay(maxc) == Lifecycle(DispQs, "r", maxc)

\* the unchanged part of a step of endsensorframework that puts messages
TdFrame ==
    /\ UNCHANGED <<cmds, released, qfileio, qdisplay, busy, cur, ticks,
                   tpc, tmsg, lpc, lmsg, lidx, timestamp, valsensor, rows, discarded,
                   bpc, triggered, dpc, dmsg,
                   lastobs, edges, emitted, dput, convs, sentPushed>>
    /\ UNCHANGED <<busvars, sidevars>>

\* the unchanged part of a step of endsensorframework that only waits
TdWaitFrame ==
    /\ UNCHANGED <<cmds, released, qfileio, qdisplay, qmsg, busy, cur, ticks,
                   tpc, tmsg, lpc, lmsg, lidx, timestamp, valsensor, rows, discarded,
                   bpc, triggered, dpc, dmsg,
                   lastobs, edges, emitted, dput, convs, ticksAtTd, sentPushed>>
    /\ UNCHANGED <<busvars, sidevars>>

\* endsensorframework, first statement: "self.qmsg[len(self.sensor)*2].put('q')"
TdQuitLogger ==
    /\ mpc = "idle"
    /\ Broadcast({LogMsg}, "q")
    /\ mpc' = "td_poll"
    /\ midx' = 1
    /\ ticksAtTd' = ticks
    /\ TdFrame

\* the "while True" loop of endsensorframework, one queue.empty() at a time: the
\* sensor queues, then the timestamp queue; a queue found not empty makes this
\* pass fail, and the next pass starts again at the first queue
TdPoll ==
    /\ mpc = "td_poll"
    /\ IF ~Empty(qfileio[midx])
         THEN /\ midx' = 1
              /\ mpc' = mpc
         ELSE IF midx < TsQ
                THEN /\ midx' = midx + 1
                     /\ mpc' = mpc
                ELSE /\ midx' = 1
                     /\ mpc' = "td_push"
    /\ TdWaitFrame

\* what endsensorframework puts on queue k of qfileio
Dummy(k) == IF k = TsQ THEN 0 ELSE Sentinel

\* "[self.qfileio[i].put((0,0,0.0)) for i in ...]" and
\* "self.qfileio[len(self.sensor)].put(time.time())", one put at a time
TdPush ==
    /\ mpc = "td_push"
    /\ CanPut(qfileio[midx], LogQCap)
    /\ qfileio' = [qfileio EXCEPT ![midx] = Append(@, Dummy(midx))]
    /\ IF midx < TsQ
         THEN /\ midx' = midx + 1
              /\ UNCHANGED <<mpc, sentPushed>>
         ELSE /\ midx' = 1
              /\ mpc' = "td_joinlog"
              /\ sentPushed' = TRUE
    /\ UNCHANGED <<cmds, released, qdisplay, qmsg, busy, cur, ticks,
                   tpc, tmsg, lpc, lmsg, lidx, timestamp, valsensor, rows, discarded,
                   bpc, triggered, dpc, dmsg,
                   lastobs, edges, emitted, dput, convs, ticksAtTd>>
    /\ UNCHANGED <<busvars, sidevars>>

\* a join that does not wait
JoinedAtOnce(pcs) == TRUE

\* the positions of a thread that has ended: it left its loop on 'q', or an
\* exception left its function
Ended == {"done", "IOError", "OSError"}

\* Thread.join returns when the thread has ended
Joined(pcs) == \A p \in pcs : p \in Ended

\* "self.logger.tl.join()"
TdJoinLogger ==
    /\ mpc = "td_joinlog"
    /\ Joined({lpc})
    /\ mpc' = "td_qdisp"
    /\ UNCHANGED midx
    /\ TdWaitFrame

\* "for q in range(len(self.sensor),len(self.sensor)*2): self.qmsg[q].put('q')"
TdQuitDisplays ==
    /\ mpc = "td_qdisp"
    /\ Broadcast(DispQs, "q")
    /\ mpc' = "td_dummy"
    /\ UNCHANGED <<midx, ticksAtTd>>
    /\ TdFrame

\* "self.qdisplay[q].put(0) # raw" and "# cooked", for every display queue
TdDummy ==
    /\ mpc = "td_dummy"
    /\ \A i \in Sensors : 2 * Len(qdisplay[i]) + 2 <= DispQCap
    /\ qdisplay' = [i \in Sensors |-> Append(qdisplay[i], <<0, 0>>)]
    /\ mpc' = "td_joindisp"
    /\ UNCHANGED <<midx, cmds, released, qfileio, qmsg, busy, cur, ticks,
                   tpc, tmsg, lpc, lmsg, lidx, timestamp, valsensor, rows, discarded,
                   bpc, triggered, dpc, dmsg,
                   lastobs, edges, emitted, dput, convs, ticksAtTd, sentPushed>>
    /\ UNCHANGED <<busvars, sidevars>>

\* "for sd in self.sensordisp: sd.td.join()"
TdJoinDisplays ==
    /\ mpc = "td_joindisp"
    /\ Joined({dpc[i] : i \in Sensors})
    /\ mpc' = "td_qback"
    /\ UNCHANGED midx
    /\ TdWaitFrame

\* "for q in range(len(self.sensor)): self.qmsg[q].put('q')"
TdQuitBackends ==
    /\ mpc = "td_qback"
    /\ Broadcast({BackMsg(i) : i \in Sensors}, "q")
    /\ mpc' = "td_joinback"
    /\ UNCHANGED <<midx, ticksAtTd>>
    /\ TdFrame

\* "for sr in self.sensorread: sr.ts.join()"
TdJoinBackends ==
    /\ mpc = "td_joinback"
    /\ Joined({bpc[i] : i \in Sensors})
    /\ mpc' = "td_qtrig"
    /\ UNCHANGED midx
    /\ TdWaitFrame

\* "self.qmsg[len(self.sensor)*2+1].put('q')"
TdQuitTrigger ==
    /\ mpc = "td_qtrig"
    /\ Broadcast({TrigMsg}, "q")
    /\ mpc' = "td_jointrig"
    /\ UNCHANGED <<midx, ticksAtTd>>
    /\ TdFrame

\* "self.trigger.tgt.join()"
TdJoinTrigger ==
    /\ mpc = "td_jointrig"
    /\ Joined({tpc})
    /\ mpc' = "td_del"
    /\ UNCHANGED midx
    /\ TdWaitFrame

\* "del self.qfileio", "del self.qdisplay", "del self.qmsg"; the function returns
TdRelease ==
    /\ mpc = "td_del"
    /\ released' = TRUE
    /\ mpc' = "returned"
    /\ UNCHANGED <<midx, cmds, qfileio, qdisplay, qmsg, busy, cur, ticks,
                   tpc, tmsg, lpc, lmsg, lidx, timestamp, valsensor, rows, discarded,
                   bpc, triggered, dpc, dmsg,
                   lastobs, edges, emitted, dput, convs, ticksAtTd, sentPushed>>
    /\ UNCHANGED <<busvars, sidevars>>

\* ------------------------------------------------------------ specification

\* gensensorframework has returned: its conversion has ended, every back-end
\* has read the ready status once and is in its main loop, the trigger thread
\* is in its inner loop
InitPipe ==
    /\ mpc = "idle"
    /\ midx = 1
    /\ cmds = 0
    /\ released = FALSE
    /\ qfileio = [k \in 1..TsQ |-> <<>>]
    /\ qdisplay = [i \in Sensors |-> <<>>]
    /\ qmsg = [m \in MsgQs |-> <<>>]
    /\ busy = [i \in Sensors |-> FALSE]
    /\ cur = [i \in Sensors |-> 0]
    /\ ticks = 0
    /\ tpc = "inner"
    /\ tmsg = "h"
    /\ lpc = "top"
    /\ lmsg = "r"
    /\ lidx = 1
    /\ timestamp = 0
    /\ valsensor = [i \in Sensors |-> 0]
    /\ rows = <<>>
    /\ discarded = 0
    /\ bpc = [i \in Sensors |-> "run"]
    /\ triggered = [i \in Sensors |-> FALSE]
    /\ dpc = [i \in Sensors |-> "loop"]
    /\ dmsg = [i \in Sensors |-> "h"]
    /\ lastobs = [i \in Sensors |-> "ready"]
    /\ edges = [i \in Sensors |-> 0]
    /\ emitted = [i \in Sensors |-> 0]
    /\ dput = [i \in Sensors |-> 0]
    /\ convs = [i \in Sensors |-> 0]
    /\ ticksAtTd = 0
    /\ sentPushed = FALSE
    /\ inbus = {}
    /\ held = [t \in BusThreads |-> 0]
    /\ bpos = [t \in BusThreads |-> "out"]

Init == InitPipe /\ InitSide

Next ==
    \/ \E i \in Sensors : ConvComplete(i)
    \/ \E i \in Sensors : BackIter(i)
    \/ \E i \in Sensors : DispIter(i)
    \/ TrigFire(MaxTicks)
    \/ TrigPoll
    \/ TrigWait
    \/ TrigDue(MaxTicks)
    \/ LogTakeTs
    \/ LogTakeSample
    \/ LogSleep
    \/ LogMail
    \/ StartSensors(MaxCmds)
    \/ StopSensors(MaxCmds)
    \/ PauseDisplay(MaxCmds)
    \/ ResumeDisplay(MaxCmds)
    \/ TdQuitLogger
    \/ TdPoll
    \/ TdPush
    \/ TdJoinLogger
    \/ TdQuitDisplays
    \/ TdDummy
    \/ TdJoinDisplays
    \/ TdQuitBackends
    \/ TdJoinBackends
    \/ TdQuitTrigger
    \/ TdJoinTrigger
    \/ TdRelease

Spec == Init /\ [][Next]_vars

\* ------------------- SpecLog: the way to the log, followed over more triggers

NextLog ==
    \/ \E i \in Sensors : ConvComplete(i)
    \/ \E i \in Sensors : BackIter(i)
    \/ TrigFire(MaxTicksLog)
    \/ TrigPoll
    \/ TrigWait
    \/ TrigDue(MaxTicksLog)
    \/ LogTakeTs
    \/ LogTakeSample
    \/ LogSleep
    \/ LogMail
    \/ StartSensors(MaxCmdsLog)
    \/ StopSensors(MaxCmdsLog)
    \/ TdQuitLogger
    \/ TdPoll
    \/ TdPush
    \/ TdJoinLogger

SpecLog == Init /\ [][NextLog]_vars

\* ------------------------- SpecGen: gensensorframework and the first trigger

\* the threads up to the first scheduled trigger and the first command: the log
\* writer takes a message only after a row, so it takes no 'h' and never
\* sleeps, and the inner loop of __trigger does not come due a second time
NextGen ==
    \/ \E i \in Sensors : ConvComplete(i)
    \/ \E i \in Sensors : BackInit(i)
    \/ \E i \in Sensors : BackIter(i)
    \/ \E i \in Sensors : DispIter(i)
    \/ TrigSkip
    \/ TrigFire(MaxTicksGen)
    \/ TrigPoll
    \/ TrigWait
    \/ LogTakeTs
    \/ LogTakeSample
    \/ LogMail
    \/ GenTrigger
    \/ GenSettle
    \/ StartSensors(MaxCmdsGen)
    \/ StopSensors(MaxCmdsGen)
    \/ PauseDisplay(MaxCmdsGen)
    \/ ResumeDisplay(MaxCmdsGen)

SpecGen == InitGen /\ [][NextGen]_vars

\* ------------------------------------------- SpecAcq: the back-ends alone

\* some thread calls tempsensorglobal.trigger
AcqTrigger ==
    /\ ticks < MaxConvs
    /\ ticks' = ticks + 1
    /\ BroadcastTrigger(ticks + 1)
    /\ UNCHANGED <<mpc, midx, cmds, released, qfileio, qdisplay, qmsg,
                   tpc, tmsg, lpc, lmsg, lidx, timestamp, valsensor, rows, discarded,
                   bpc, triggered, dpc, dmsg,
                   lastobs, edges, emitted, dput, convs, ticksAtTd, sentPushed>>
    /\ UNCHANGED <<busvars, sidevars>>

\* the main thread puts message m on the message queue of back-end i
AcqMessage(i, m) ==
    /\ cmds < MaxMsgs
    /\ cmds' = cmds + 1
    /\ Broadcast({BackMsg(i)}, m)
    /\ UNCHANGED <<mpc, midx, released, qfileio, qdisplay, busy, cur, ticks,
                   tpc, tmsg, lpc, lmsg, lidx, timestamp, valsensor, rows, discarded,
                   bpc, triggered, dpc, dmsg,
                   lastobs, edges, emitted, dput, convs, ticksAtTd, sentPushed>>
    /\ UNCHANGED <<busvars, sidevars>>

NextAcq ==
    \/ AcqTrigger
    \/ \E i \in Sensors, m \in Msgs : AcqMessage(i, m)
    \/ \E i \in Sensors : ConvComplete(i)
    \/ \E i \in Sensors : BackInit(i)
    \/ \E i \in Sensors : BackIter(i)

SpecAcq == InitGen /\ [][NextAcq]_vars

\* ------------------------------------------ SpecBus: the bus transactions

\* "threading.Lock()": a new lock object, one that no thread holds
NewLock == CHOOSE n \in 1..(NumSensors + 2) : \A t \in BusThreads : held[t] # n

\* "with threading.Lock():" entered by thread t: the lock object is created
\* and acquired; acquiring blocks while another thread holds that object
LockEnter(t) ==
    /\ bpos[t] = "out"
    /\ \A u \in BusThreads : held[u] # NewLock
    /\ held' = [held EXCEPT ![t] = NewLock]
    /\ bpos' = [bpos EXCEPT ![t] = "locked"]

\* thread t starts its bus transaction
BusBegin(t) ==
    /\ inbus' = inbus \cup {t}
    /\ bpos' = [bpos EXCEPT ![t] = "in"]

\* thread t ends its bus transaction, and leaves the with statement if it is in one
BusEnd(t) ==
    /\ bpos[t] = "in"
    /\ inbus' = inbus \ {t}
    /\ held' = [held EXCEPT ![t] = 0]
    /\ bpos' = [bpos EXCEPT ![t] = "out"]

BusFrame ==
    UNCHANGED <<midx, cmds, released, qfileio, qdisplay, qmsg, busy, cur, ticks,
                tpc, tmsg, lpc, lmsg, lidx, timestamp, valsensor, rows, discarded,
                triggered, dpc, dmsg,
                lastobs, edges, emitted, dput, convs, ticksAtTd, sentPushed,
                short, unread, cfgvars, morevars>>

\* the back-end of sensor i, first loop: "data_ready = self.sensor.read_status()"
\* with no lock around it
BusInitRead(i) ==
    /\ bpc[i] = "init"
    /\ bpos[i] = "out"
    /\ BusBegin(i)
    /\ UNCHANGED <<held, mpc, bpc>>
    /\ BusFrame

\* the read ends; the first loop ends when the status read was ready
BusInitDone(i) ==
    /\ bpc[i] = "init"
    /\ BusEnd(i)
    /\ \E ready \in BOOLEAN : bpc' = [bpc EXCEPT ![i] = IF ready THEN "run" ELSE "init"]
    /\ UNCHANGED mpc
    /\ BusFrame

\* the back-end of sensor i, main loop: "with threading.Lock():"
BusPollLock(i) ==
    /\ bpc[i] = "run"
    /\ LockEnter(i)
    /\ UNCHANGED <<inbus, mpc, bpc>>
    /\ BusFrame

\* "data_ready = self.sensor.read_status()" inside the with statement
BusPollRead(i) ==
    /\ bpc[i] = "run"
    /\ bpos[i] = "locked"
    /\ BusBegin(i)
    /\ UNCHANGED <<held, mpc, bpc>>
    /\ BusFrame

BusPollDone(i) ==
    /\ bpc[i] = "run"
    /\ BusEnd(i)
    /\ UNCHANGED <<mpc, bpc>>
    /\ BusFrame

\* the trigger thread: "with threading.Lock():" in __trigger
BusTrigLock ==
    /\ LockEnter(TrigT)
    /\ UNCHANGED <<inbus, mpc, bpc>>
    /\ BusFrame

\* "self.sensors.trigger()" inside it
BusTrigWrite ==
    /\ bpos[TrigT] = "locked"
    /\ BusBegin(TrigT)
    /\ UNCHANGED <<held, mpc, bpc>>
    /\ BusFrame

BusTrigDone ==
    /\ BusEnd(TrigT)
    /\ UNCHANGED <<mpc, bpc>>
    /\ BusFrame

\* the main thread, sensorglobaltrigger.trigger: "with threading.Lock():"
BusMainLock ==
    /\ mpc = "gen"
    /\ LockEnter(MainT)
    /\ UNCHANGED <<inbus, mpc, bpc>>
    /\ BusFrame

\* "self.sensors.trigger()" inside it
BusMainWrite ==
    /\ bpos[MainT] = "locked"
    /\ BusBegin(MainT)
    /\ UNCHANGED <<held, mpc, bpc>>
    /\ BusFrame

BusMainDone ==
    /\ BusEnd(MainT)
    /\ mpc' = "settle"
    /\ UNCHANGED bpc
    /\ BusFrame

NextBus ==
    \/ \E i \in Sensors : BusInitRead(i)
    \/ \E i \in Sensors : BusInitDone(i)
    \/ \E i \in Sensors : BusPollLock(i)
    \/ \E i \in Sensors : BusPollRead(i)
    \/ \E i \in Sensors : BusPollDone(i)
    \/ BusTrigLock
    \/ BusTrigWrite
    \/ BusTrigDone
    \/ BusMainLock
    \/ BusMainWrite
    \/ BusMainDone

SpecBus == InitGen /\ [][NextBus]_vars

\* -------------------------------------------------------------- properties

\* the elements of sequence q
Range(q) == {q[k] : k \in 1..Len(q)}

\* endsensorframework has got past "self.logger.tl.join()"
LoggerJoined ==
    mpc \in {"td_qdisp", "td_dummy", "td_joindisp", "td_qback", "td_joinback",
             "td_qtrig", "td_jointrig", "td_del", "returned"}

\* row r holds, for every sensor in order, a Sample of that sensor
RealRow(r) == \A i \in Sensors : r.vals[i][1] = Addr(i)

\* C1: endsensorframework never hangs.  A state it cannot leave: it is in its
\* wait-until-empty loop, a log queue holds an element, and the log writer, the
\* only thread that takes from the log queues, has ended.
C1_TeardownNeverHangs ==
    ~ ( /\ mpc = "td_poll"
        /\ lpc = "done"
        /\ \E k \in 1..TsQ : ~Empty(qfileio[k]) )

\* C2: no row written to the log holds the sentinel (0,0,0.0) in a sensor
\* position.
C2_NoSentinelInRow ==
    \A k \in 1..Len(rows) : \A i \in Sensors : rows[k].vals[i] # Sentinel

\* C3: the k-th row written holds the timestamp of the k-th scheduled trigger
\* and, for every sensor in order, the Sample of the conversion that trigger
\* started.
C3_RowsAligned ==
    \A k \in 1..Len(rows) :
        /\ rows[k].ts = k
        /\ \A i \in Sensors : rows[k].vals[i] = <<Addr(i), k>>

\* C4: once endsensorframework has joined the log writer, the log holds one
\* row, of real Samples of every sensor, per scheduled trigger: as many rows
\* as triggers fired, counting at least those fired before the call and at
\* most those fired in all.
C4_OneRowPerTick ==
    LoggerJoined =>
        /\ \A k \in 1..Len(rows) : RealRow(rows[k])
        /\ ticksAtTd <= Len(rows)
        /\ Len(rows) <= ticks

\* C8: when the log writer has ended in a shutdown it has collected exactly one
\* row that it did not write, no row it wrote holds the timestamp or a tuple
\* that endsensorframework pushed, and none of these is left in a queue.
C8_OneSentinelRow ==
    LoggerJoined =>
        /\ discarded = 1
        /\ \A k \in 1..Len(rows) : rows[k].ts # 0 /\ RealRow(rows[k])
        /\ \A k \in 1..TsQ : Dummy(k) \notin Range(qfileio[k])

\* C9: 'q' is in the message queue of the log writer only after
\* endsensorframework has seen the log queues empty and pushed its sentinels.
C9_QuitAfterSentinels ==
    "q" \in Range(qmsg[LogMsg]) => sentPushed

\* 'q' has been put on message queue m of a thread whose position is pc
QuitSent(m, pc) == "q" \in Range(qmsg[m]) \/ pc = "done"

\* C10: endsensorframework stops the threads in order: 'q' goes to a display
\* thread only when the log writer has ended, to a back-end only when every
\* display thread has ended, to the trigger thread only when every back-end has
\* ended, and the queues are deleted only when the trigger thread has ended.
C10_TeardownOrder ==
    /\ (\E i \in Sensors : QuitSent(DispMsg(i), dpc[i])) => lpc = "done"
    /\ (\E i \in Sensors : QuitSent(BackMsg(i), bpc[i]))
          => \A j \in Sensors : dpc[j] = "done"
    /\ QuitSent(TrigMsg, tpc) => \A j \in Sensors : bpc[j] = "done"
    /\ released => tpc = "done"

\* endsensorframework has returned, every thread ended
C10_Witness ==
    /\ mpc = "returned"
    /\ released
    /\ lpc = "done" /\ tpc = "done"
    /\ \A i \in Sensors : dpc[i] = "done" /\ bpc[i] = "done"

\* C5: a back-end puts one Sample per conversion of its sensor: whenever an
\* iteration of its main loop reads the ready status, the Samples it has put
\* are as many as the conversions that ended since it entered the loop.
C5_OneSamplePerConversion ==
    [][\A i \in Sensors : (BackIter(i) /\ ReadStatus(i)) => emitted'[i] = convs[i]]_vars

\* C6: a back-end has put as many Samples, one element on its log queue and
\* one pair on its display queue each, as busy->ready transitions in the
\* sequence of statuses its main loop has read (no thread takes from the queues
\* in SpecAcq).
C6_OneSamplePerEdge ==
    \A i \in Sensors :
        /\ emitted[i] = edges[i]
        /\ dput[i] = edges[i]
        /\ Len(qfileio[i]) = edges[i]
        /\ Len(qdisplay[i]) = edges[i]

\* a back-end that has seen two busy->ready transitions and now reads ready again
C6_Witness ==
    \E i \in Sensors :
        /\ edges[i] = 2
        /\ Len(qfileio[i]) = 2
        /\ lastobs[i] = "ready"
        /\ ~triggered[i]
        /\ ~busy[i]

\* C7: at most one thread is inside a bus transaction, and the threads that
\* hold a lock for one hold one and the same lock.
C7_BusExclusive ==
    /\ Cardinality(inbus) <= 1
    /\ \A t, u \in BusThreads : held[t] # 0 /\ held[u] # 0 => held[t] = held[u]

InitTrig ==
    /\ InitPipe
    /\ short \in BOOLEAN
    /\ unread = 0
    /\ InitCfgDone
    /\ InitMore

\* the main thread puts message m on the message queue of the trigger thread
TrigMessage(m) ==
    /\ cmds < MaxMsgsTrig
    /\ cmds' = cmds + 1
    /\ Broadcast({TrigMsg}, m)
    /\ UNCHANGED <<mpc, midx, released, qfileio, qdisplay, busy, cur, ticks,
                   tpc, tmsg, lpc, lmsg, lidx, timestamp, valsensor, rows, discarded,
                   bpc, triggered, dpc, dmsg,
                   lastobs, edges, emitted, dput, convs, ticksAtTd, sentPushed>>
    /\ UNCHANGED <<busvars, sidevars>>

NextTrig ==
    \/ \E m \in Msgs : TrigMessage(m)
    \/ \E i \in Sensors : ConvComplete(i)
    \/ TrigFire(MaxTicksTrig)
    \/ TrigNoPoll
    \/ TrigWait
    \/ TrigPoll
    \/ TrigDue(MaxTicksTrig)

SpecTrig == InitTrig /\ [][NextTrig]_vars

\* C12: for every sample period the trigger thread takes each message put on
\* its message queue within one poll: while a message waits it fires at most
\* the one trigger whose deadline was less than 0.25 s away when the message
\* was put, then takes the message (and halts on 'h', ends on 'q').
C12_MessagesRead == unread <= 1

\* ----------------------- SpecFill: the back-ends when nothing takes Samples

\* the log writer has ended (endsensorframework has joined it, or is in its
\* wait-until-empty loop) while the back-ends and the trigger thread run on:
\* every sensor log queue holds fill Samples of earlier conversions
InitFill ==
    \E fill \in {0, LogQCap - 1, LogQCap} :
        /\ mpc = "idle"
        /\ midx = 1
        /\ cmds = 0
        /\ released = FALSE
        /\ qfileio = [k \in 1..TsQ |->
                        IF k \in Sensors THEN [j \in 1..fill |-> <<Addr(k), 0>>]
                                         ELSE <<>>]
        /\ qdisplay = [i \in Sensors |-> <<>>]
        /\ qmsg = [m \in MsgQs |-> <<>>]
        /\ busy = [i \in Sensors |-> FALSE]
        /\ cur = [i \in Sensors |-> 0]
        /\ ticks = 0
        /\ tpc = "inner"
        /\ tmsg = "r"
        /\ lpc = "done"
        /\ lmsg = "q"
        /\ lidx = 1
        /\ timestamp = 0
        /\ valsensor = [i \in Sensors |-> 0]
        /\ rows = <<>>
        /\ discarded = 0
        /\ bpc = [i \in Sensors |-> "run"]
        /\ triggered = [i \in Sensors |-> FALSE]
        /\ dpc = [i \in Sensors |-> "loop"]
        /\ dmsg = [i \in Sensors |-> "r"]
        /\ lastobs = [i \in Sensors |-> "ready"]
        /\ edges = [i \in Sensors |-> 0]
        /\ emitted = [i \in Sensors |-> 0]
        /\ dput = [i \in Sensors |-> 0]
        /\ convs = [i \in Sensors |-> 0]
        /\ ticksAtTd = 0
        /\ sentPushed = FALSE
        /\ inbus = {}
        /\ held = [t \in BusThreads |-> 0]
        /\ bpos = [t \in BusThreads |-> "out"]
        /\ InitSide

\* an iteration of the main loop of __sensoroneshottask that reads ready after
\* busy while its log queue or its display queue is full: triggered is reset
\* and the thread is suspended inside Queue.put, before it looks at its
\* message queue
BackBlock(i) ==
    /\ bpc[i] = "run"
    /\ Emits(triggered[i], ReadStatus(i))
    /\ ~CanPut(qfileio[i], LogQCap) \/ 2 * Len(qdisplay[i]) + 2 > DispQCap
    /\ bpc' = [bpc EXCEPT ![i] = "blocked"]
    /\ triggered' = [triggered EXCEPT ![i] = FALSE]
    /\ edges' = [edges EXCEPT ![i] = IF lastobs[i] = "busy" THEN @ + 1 ELSE @]
    /\ lastobs' = [lastobs EXCEPT ![i] = "ready"]
    /\ UNCHANGED <<mpc, midx, cmds, released, qfileio, qdisplay, qmsg, busy, cur, ticks,
                   tpc, tmsg, lpc, lmsg, lidx, timestamp, valsensor, rows, discarded,
                   dpc, dmsg, emitted, dput, convs, ticksAtTd, sentPushed>>
    /\ UNCHANGED <<busvars, sidevars>>

NextFill ==
    \/ AcqTrigger
    \/ \E i \in Sensors, m \in Msgs : AcqMessage(i, m)
    \/ \E i \in Sensors : ConvComplete(i)
    \/ \E i \in Sensors : BackIter(i)
    \/ \E i \in Sensors : BackBlock(i)

SpecFill == InitFill /\ [][NextFill]_vars

\* C13: a back-end is never suspended for good: no back-end is inside a
\* Queue.put that cannot return (in SpecFill no thread takes from the log
\* queues any more), where it does not look at its message queue.
C13_BackendNeverSuspended == \A i \in Sensors : bpc[i] # "blocked"

\* ------------------- SpecDisp: display pauses while the acquisition runs

\* the threads of a created framework with startsensors as the first call and
\* pausedisplayupdates / resumedisplayupdates at any moment
NextDisp ==
    \/ \E i \in Sensors : ConvComplete(i)
    \/ \E i \in Sensors : BackIter(i)
    \/ \E i \in Sensors : DispIter(i)
    \/ TrigFire(MaxTicksDisp)
    \/ TrigPoll
    \/ TrigWait
    \/ TrigDue(MaxTicksDisp)
    \/ LogTakeTs
    \/ LogTakeSample
    \/ LogMail
    \/ StartSensors(1)
    \/ PauseDisplay(MaxCmdsDisp)
    \/ ResumeDisplay(MaxCmdsDisp)

SpecDisp == Init /\ [][NextDisp]_vars

\* what the rows of the log are made from: the sensors, the trigger thread,
\* the back-ends, the log queues, the log writer and their message queues
LogView ==
    <<busy, cur, ticks, tpc, tmsg, bpc, triggered, qfileio,
      lpc, lmsg, lidx, timestamp, valsensor, rows, discarded,
      [i \in Sensors |-> qmsg[BackMsg(i)]], qmsg[LogMsg], qmsg[TrigMsg]>>

\* C14: pausedisplayupdates and resumedisplayupdates do not change what the
\* log writer writes: a call of either, and every step of a display thread
\* (halted or not), leaves unchanged all that the rows are made from, and the
\* one thing a back-end needs from the display side, room in its display queue,
\* is there at every step, so the other threads run as in a run without pauses.
C14_PauseKeepsRows ==
    [][ /\ ( \/ PauseDisplay(MaxCmdsDisp)
             \/ ResumeDisplay(MaxCmdsDisp)
             \/ \E i \in Sensors : DispIter(i) ) => UNCHANGED LogView
        /\ \A i \in Sensors : 2 * Len(qdisplay'[i]) + 2 <= DispQCap ]_vars

\* the display thread of sensor 1 has taken the 'r' of startsensors and then
\* the 'h' of a pause, and two rows are written
C14_Witness ==
    /\ Len(rows) = 2
    /\ cmds >= 2
    /\ dmsg[1] = "h"
    /\ Empty(qmsg[DispMsg(1)])

\* --------------------------- SpecHalt: stopsensors and startsensors in turn

\* the trigger thread, the back-ends and the log writer of a created
\* framework with startsensors / stopsensors called at any moment
NextHalt ==
    \/ \E i \in Sensors : ConvComplete(i)
    \/ \E i \in Sensors : BackIter(i)
    \/ TrigFire(MaxTicksHalt)
    \/ TrigPoll
    \/ TrigWait
    \/ TrigDue(MaxTicksHalt)
    \/ LogTakeTs
    \/ LogTakeSample
    \/ LogSleep
    \/ LogMail
    \/ StartSensors(MaxCmdsHalt)
    \/ StopSensors(MaxCmdsHalt)

SpecHalt == Init /\ [][NextHalt]_vars

\* the timestamps in the order the log writer meets them: those of the rows,
\* the one it holds for the row it is collecting, those still queued
TsStream ==
    [k \in 1..Len(rows) |-> rows[k].ts]
        \o (IF lpc = "samples" THEN <<timestamp>> ELSE <<>>)
        \o qfileio[TsQ]

\* the same for the Samples of sensor i
SampleStream(i) ==
    [k \in 1..Len(rows) |-> rows[k].vals[i]]
        \o (IF lpc = "samples" /\ lidx > i THEN <<valsensor[i]>> ELSE <<>>)
        \o qfileio[i]

\* every timestamp pushed and every Sample put is in a row, in the hands of the
\* log writer or still queued, once, in the order it was produced
NothingLost ==
    /\ TsStream = [k \in 1..ticks |-> k]
    /\ \A i \in Sensors :
          /\ Len(SampleStream(i)) = emitted[i]
          /\ \A a \in 1..Len(SampleStream(i)) :
                /\ SampleStream(i)[a][1] = Addr(i)
                /\ \A b \in 1..(a - 1) : SampleStream(i)[b][2] < SampleStream(i)[a][2]

\* C15: while the log writer is halted (its msg is not 'r') no log queue loses
\* an element, and across halts and resumes nothing queued is lost or
\* duplicated: all of it is in a row or still waiting for one.
C15_HaltKeepsData ==
    [][ /\ lmsg # "r" => \A k \in 1..TsQ : Len(qfileio'[k]) >= Len(qfileio[k])
        /\ NothingLost' ]_vars

\* the log writer is halted after two rows, stopsensors and startsensors both
\* called, while timestamp 3 and its Samples wait in the log queues
C15_Witness ==
    /\ lpc = "top"
    /\ lmsg = "h"
    /\ Len(rows) = 2
    /\ cmds >= 2
    /\ qfileio[TsQ] = <<3>>
    /\ \A i \in Sensors : Len(qfileio[i]) = 1


\* ------------------------------------------------- C16: the initial trigger

\* C16: the conversion started by the trigger of gensensorframework never makes
\* a back-end put a Sample: every Sample put on a log queue belongs to a
\* scheduled trigger, which pushed a timestamp, so no sensor has put more
\* Samples than timestamps were pushed.
C16_InitTriggerSilent ==
    \A i \in Sensors : emitted[i] <= ticks


\* ------------------------------------------ C17: the threads before a start

\* C17: as long as no command was given after gensensorframework (so no 'r' was
\* put on any message queue) the trigger thread, the log writer and every
\* display thread are halted: none has 'r' as its msg, no scheduled trigger
\* was fired and the log writer took nothing from the log queues.
C17_AllHaltedBeforeStart ==
    cmds = 0 =>
        /\ tmsg # "r"
        /\ lmsg # "r"
        /\ \A i \in Sensors : dmsg[i] # "r"
        /\ ticks = 0
        /\ lpc # "samples"


\* ------------------------------- SpecCfg: gensensorframework, the object lists

\* any configuration of the slots; the queues and threads are not looked at
InitCfg ==
    /\ InitPipe
    /\ short = FALSE
    /\ unread = 0
    /\ InitMore
    /\ sensorcfg \in [Slots -> BOOLEAN]
    /\ gpc = "slots"
    /\ slot = 0
    /\ tidx = 0
    /\ sensor = <<>>
    /\ sensorno = <<>>
    /\ sensorread = <<>>
    /\ sensordisp = <<>>

\* one pass of "for s in sorted(self.sensorcfg['sensors'])": a configured slot
\* gets its slot number appended to sensorno and a tempsensor appended to
\* sensor, then "self.sensor[int(s)].set_slope(...)" and set_intercept with the
\* values of slot s.  Python indexes from 0: sensor[int(s)] is element s + 1
\* here, and raises IndexError when the list is shorter.
GenSlot ==
    /\ gpc = "slots"
    /\ slot < NumSlots
    /\ IF ~sensorcfg[slot]
         THEN /\ slot' = slot + 1
              /\ UNCHANGED <<gpc, sensor, sensorno>>
         ELSE LET appended == Append(sensor, tempsensor(slot))
              IN  /\ sensorno' = Append(sensorno, slot)
                  /\ IF slot + 1 <= Len(appended)
                       THEN /\ sensor' = [appended EXCEPT ![slot + 1].slope = slot,
                                                          ![slot + 1].intercept = slot]
                            /\ slot' = slot + 1
                            /\ UNCHANGED gpc
                       ELSE /\ sensor' = appended
                            /\ gpc' = "IndexError"
                            /\ UNCHANGED slot
    /\ UNCHANGED <<sensorcfg, tidx, sensorread, sensordisp>>
    /\ UNCHANGED <<pipevars, busvars, short, unread, morevars>>

\* the loop over the slots has ended
GenSlotsDone ==
    /\ gpc = "slots"
    /\ slot = NumSlots
    /\ gpc' = "threads"
    /\ UNCHANGED <<sensorcfg, slot, tidx, sensor, sensorno, sensorread, sensordisp>>
    /\ UNCHANGED <<pipevars, busvars, short, unread, morevars>>

\* one pass of "for i in range(len(self.sensor))": a sensorbackend for
\* sensor[i] and a sensorfrontend for sensorno[i]
GenTask ==
    /\ gpc = "threads"
    /\ tidx < Len(sensor)
    /\ sensorread' = Append(sensorread, sensor[tidx + 1].slot)
    /\ sensordisp' = Append(sensordisp, sensorno[tidx + 1])
    /\ tidx' = tidx + 1
    /\ UNCHANGED <<sensorcfg, gpc, slot, sensor, sensorno>>
    /\ UNCHANGED <<pipevars, busvars, short, unread, morevars>>

\* every sensor has its two objects
GenTasksDone ==
    /\ gpc = "threads"
    /\ tidx = Len(sensor)
    /\ gpc' = "done"
    /\ UNCHANGED <<sensorcfg, slot, tidx, sensor, sensorno, sensorread, sensordisp>>
    /\ UNCHANGED <<pipevars, busvars, short, unread, morevars>>

NextCfg ==
    \/ GenSlot
    \/ GenSlotsDone
    \/ GenTask
    \/ GenTasksDone

SpecCfg == InitCfg /\ [][NextCfg]_vars

\* the configured slots in ascending order, starting at slot s
RECURSIVE PresentFrom(_)
PresentFrom(s) ==
    IF s >= NumSlots THEN <<>>
    ELSE IF sensorcfg[s] THEN <<s>> \o PresentFrom(s + 1)
    ELSE PresentFrom(s + 1)

\* C18: for every configuration of the slots gensensorframework succeeds, and
\* when its loops are done the tempsensor objects are exactly the configured
\* slots in slot order, each with the slope and intercept of its own slot, with
\* one back-end and one front-end per object and none for an absent slot.
C18_CreateAnyConfig ==
    /\ gpc # "IndexError"
    /\ gpc = "done" =>
          /\ sensorno = PresentFrom(0)
          /\ Len(sensor) = Len(sensorno)
          /\ \A k \in 1..Len(sensor) :
                /\ sensor[k].slot = sensorno[k]
                /\ sensor[k].slope = sensorno[k]
                /\ sensor[k].intercept = sensorno[k]
          /\ sensorread = sensorno
          /\ sensordisp = sensorno


\* ------------------------------------- SpecFault: bus reads that can fail

\* "data_ready = self.sensor.read_status()" with a bus transfer that fails:
\* read_i2c_block_data raises, read_status and __sensoroneshottask have no
\* handler (in neither loop), the exception ends the thread
BackReadFail(i) ==
    /\ bpc[i] \in {"init", "run"}
    /\ bpc' = [bpc EXCEPT ![i] = "IOError"]
    /\ UNCHANGED <<mpc, midx, cmds, released, qfileio, qdisplay, qmsg, busy, cur, ticks,
                   tpc, tmsg, lpc, lmsg, lidx, timestamp, valsensor, rows, discarded,
                   triggered, dpc, dmsg,
                   lastobs, edges, emitted, dput, convs, ticksAtTd, sentPushed>>
    /\ UNCHANGED <<busvars, sidevars>>

\* the back-ends with triggers and messages from outside, on a bus whose reads
\* can fail
NextFault ==
    \/ AcqTrigger
    \/ \E i \in Sensors, m \in Msgs : AcqMessage(i, m)
    \/ \E i \in Sensors : ConvComplete(i)
    \/ \E i \in Sensors : BackInit(i)
    \/ \E i \in Sensors : BackIter(i)
    \/ \E i \in Sensors : BackReadFail(i)

SpecFault == InitGen /\ [][NextFault]_vars

\* C19: a failed bus read does not end a back-end thread: the thread is in one
\* of its loops until it takes 'q'.
C19_ReadFailureContained ==
    \A i \in Sensors : bpc[i] \in {"init", "run", "done"}


\* --------------------------------- SpecWrite: log file writes that can fail

\* the log writer has the last Sample of a row to write and "datalog.write"
\* raises (the disk is full, the medium is gone): __logwriter has no handler,
\* the exception ends the thread; the row is not in the file
LogWriteFail ==
    LET vals == [valsensor EXCEPT ![lidx] = Head(qfileio[lidx])]
    IN  /\ lpc = "samples"
        /\ lidx = NumSensors
        /\ ~Empty(qfileio[lidx])
        /\ Writes(vals)
        /\ valsensor' = vals
        /\ qfileio' = [qfileio EXCEPT ![lidx] = Tail(@)]
        /\ lpc' = "OSError"
        /\ UNCHANGED <<mpc, midx, cmds, released, qdisplay, qmsg, busy, cur, ticks,
                       tpc, tmsg, lmsg, lidx, timestamp, rows, discarded,
                       bpc, triggered, dpc, dmsg,
                       lastobs, edges, emitted, dput, convs, ticksAtTd, sentPushed>>
        /\ UNCHANGED <<busvars, sidevars>>

\* the log path of SpecLog with a log file whose writes can fail
NextWrite ==
    \/ \E i \in Sensors : ConvComplete(i)
    \/ \E i \in Sensors : BackIter(i)
    \/ TrigFire(MaxTicksLog)
    \/ TrigPoll
    \/ TrigWait
    \/ TrigDue(MaxTicksLog)
    \/ LogTakeTs
    \/ LogTakeSample
    \/ LogSleep
    \/ LogMail
    \/ LogWriteFail
    \/ StartSensors(MaxCmdsLog)
    \/ StopSensors(MaxCmdsLog)
    \/ TdQuitLogger
    \/ TdPoll
    \/ TdPush
    \/ TdJoinLogger

SpecWrite == Init /\ [][NextWrite]_vars

\* C20: a failed write ends the log writer and nothing else: the back-ends and
\* the trigger thread go on and a later endsensorframework still stops them.
\* It cannot when it is caught in its wait-until-empty loop on a log queue that
\* holds an element, the log writer having ended on the failed write.
C20_WriteFailureContained ==
    ~ ( /\ lpc = "OSError"
        /\ mpc = "td_poll"
        /\ \E k \in 1..TsQ : ~Empty(qfileio[k]) )


\* ------------------------------- SpecFeed: the display thread, pair by pair

\* the messages of the program and one that is none of them
AnyMsgs == Msgs \cup {"x"}

\* a display thread that shows whatever its msg is
ShowsAlways(msg) == TRUE

\* "if msg == 'r':" the display thread takes the pairs into its history
Shows(msg) == msg = "r"

\* the part of pipevars a step of the display thread of sensor i leaves alone
\* apart from qdisplay, qmsg, dpc and dmsg
FeedFrame ==
    /\ UNCHANGED <<mpc, midx, cmds, released, qfileio, busy, cur, ticks,
                   tpc, tmsg, lpc, lmsg, lidx, timestamp, valsensor, rows, discarded,
                   bpc, triggered,
                   lastobs, edges, emitted, dput, convs, ticksAtTd, sentPushed>>
    /\ UNCHANGED <<busvars, short, unread, cfgvars, clockvars, sensvars, extravars>>

\* the top of the loop of __sensordisplaytask: with msg 'r' the drain loop, with
\* 'q' the end of the thread, with anything else the discard loop
FeedTop(i) ==
    /\ dpc[i] = "loop"
    /\ dpc' = [dpc EXCEPT ![i] = IF Shows(dmsg[i]) THEN "drain"
                                  ELSE IF dmsg[i] = "q" THEN "done"
                                  ELSE "discard"]
    /\ repaints' = [repaints EXCEPT ![i] = IF Shows(dmsg[i]) THEN 0 ELSE @]
    /\ drained' = [drained EXCEPT ![i] = IF Shows(dmsg[i]) THEN 0 ELSE @]
    /\ UNCHANGED <<raw, cookedhist, ind, cooked>>
    /\ UNCHANGED <<qdisplay, qmsg, dmsg>>
    /\ FeedFrame

\* one pass of "while(not self.qdisplay.empty())" with msg 'r': raw[ind] takes
\* the raw value, cookedhist[ind] the value cooked had, cooked the cooked value;
\* ind advances and wraps; "if self.qdisplay.empty(): self.windowrefresh()"
FeedDrain(i) ==
    /\ dpc[i] = "drain"
    /\ ~Empty(qdisplay[i])
    /\ raw' = [raw EXCEPT ![i][ind[i] + 1] = Head(qdisplay[i])[1]]
    /\ cookedhist' = [cookedhist EXCEPT ![i][ind[i] + 1] = cooked[i]]
    /\ cooked' = [cooked EXCEPT ![i] = Head(qdisplay[i])[2]]
    /\ ind' = [ind EXCEPT ![i] = IF @ + 1 >= HistLen THEN 0 ELSE @ + 1]
    /\ qdisplay' = [qdisplay EXCEPT ![i] = Tail(@)]
    /\ repaints' = [repaints EXCEPT ![i] = IF Empty(Tail(qdisplay[i])) THEN @ + 1 ELSE @]
    /\ drained' = [drained EXCEPT ![i] = @ + 1]
    /\ UNCHANGED <<qmsg, dpc, dmsg>>
    /\ FeedFrame

\* the drain loop finds the queue empty
FeedDrainEnd(i) ==
    /\ dpc[i] = "drain"
    /\ Empty(qdisplay[i])
    /\ dpc' = [dpc EXCEPT ![i] = "mail"]
    /\ UNCHANGED <<qdisplay, qmsg, dmsg, feedvars>>
    /\ FeedFrame

\* one pass of the loop of the else branch: "dummy = self.qdisplay.get()" twice
FeedDiscard(i) ==
    /\ dpc[i] = "discard"
    /\ ~Empty(qdisplay[i])
    /\ qdisplay' = [qdisplay EXCEPT ![i] = Tail(@)]
    /\ UNCHANGED <<qmsg, dpc, dmsg, feedvars>>
    /\ FeedFrame

\* the discard loop finds the queue empty
FeedDiscardEnd(i) ==
    /\ dpc[i] = "discard"
    /\ Empty(qdisplay[i])
    /\ dpc' = [dpc EXCEPT ![i] = "mail"]
    /\ UNCHANGED <<qdisplay, qmsg, dmsg, feedvars>>
    /\ FeedFrame

\* "time.sleep(0.25)", "if not self.qmsg.empty(): msg = self.qmsg.get()"
FeedMail(i) ==
    LET mq == qmsg[DispMsg(i)]
    IN  /\ dpc[i] = "mail"
        /\ dpc' = [dpc EXCEPT ![i] = "loop"]
        /\ IF Empty(mq)
             THEN UNCHANGED <<qmsg, dmsg>>
             ELSE /\ qmsg' = [qmsg EXCEPT ![DispMsg(i)] = Tail(mq)]
                  /\ dmsg' = [dmsg EXCEPT ![i] = Head(mq)]
        /\ UNCHANGED <<qdisplay, feedvars>>
        /\ FeedFrame

\* the main thread puts message m on the message queue of front-end i
FeedMessage(i, m) ==
    /\ cmds < MaxMsgsFeed
    /\ cmds' = cmds + 1
    /\ Broadcast({DispMsg(i)}, m)
    /\ UNCHANGED <<mpc, midx, released, qfileio, qdisplay, busy, cur, ticks,
                   tpc, tmsg, lpc, lmsg, lidx, timestamp, valsensor, rows, discarded,
                   bpc, triggered, dpc, dmsg,
                   lastobs, edges, emitted, dput, convs, ticksAtTd, sentPushed>>
    /\ UNCHANGED <<busvars, sidevars>>

\* the sensors SpecFeed follows: the first one, with its back-end and front-end
Fed == {1}

\* a back-end, triggered from outside, and its display thread with any messages
NextFeed ==
    \/ AcqTrigger
    \/ \E i \in Fed : ConvComplete(i)
    \/ \E i \in Fed : BackIter(i)
    \/ \E i \in Fed, m \in AnyMsgs : FeedMessage(i, m)
    \/ \E i \in Fed : FeedTop(i)
    \/ \E i \in Fed : FeedDrain(i)
    \/ \E i \in Fed : FeedDrainEnd(i)
    \/ \E i \in Fed : FeedDiscard(i)
    \/ \E i \in Fed : FeedDiscardEnd(i)
    \/ \E i \in Fed : FeedMail(i)

SpecFeed == Init /\ [][NextFeed]_vars


\* ------------------------------ SpecMsg: messages the program never sends

\* the main thread puts message m, of the program or not, on message queue k
AnyMessage(k, m) ==
    /\ cmds < MaxMsgsMsg
    /\ cmds' = cmds + 1
    /\ Broadcast({k}, m)
    /\ UNCHANGED <<mpc, midx, released, qfileio, qdisplay, busy, cur, ticks,
                   tpc, tmsg, lpc, lmsg, lidx, timestamp, valsensor, rows, discarded,
                   bpc, triggered, dpc, dmsg,
                   lastobs, edges, emitted, dput, convs, ticksAtTd, sentPushed>>
    /\ UNCHANGED <<busvars, sidevars>>

\* the message queues SpecMsg puts to: those of the trigger thread, the log
\* writer, and the back-end and front-end of the sensors of Fed
MsgTargets == {TrigMsg, LogMsg} \cup {BackMsg(i) : i \in Fed} \cup {DispMsg(i) : i \in Fed}

\* the threads of a created framework with any message on any message queue
NextMsg ==
    \/ \E k \in MsgTargets, m \in AnyMsgs : AnyMessage(k, m)
    \/ \E i \in Sensors : ConvComplete(i)
    \/ \E i \in Sensors : BackIter(i)
    \/ TrigFire(MaxTicksMsg)
    \/ TrigPoll
    \/ TrigWait
    \/ TrigDue(MaxTicksMsg)
    \/ LogTakeTs
    \/ LogTakeSample
    \/ LogSleep
    \/ LogMail
    \/ \E i \in Fed : FeedTop(i)
    \/ \E i \in Fed : FeedDrain(i)
    \/ \E i \in Fed : FeedDrainEnd(i)
    \/ \E i \in Fed : FeedDiscard(i)
    \/ \E i \in Fed : FeedDiscardEnd(i)
    \/ \E i \in Fed : FeedMail(i)

SpecMsg == Init /\ [][NextMsg]_vars


\* a message that is none of 'r', 'h', 'q'
Unknown(m) == m \notin Msgs

\* what a halted front-end leaves alone: its history, its index, its current
\* value, and the window
FeedView(i) == <<raw[i], cookedhist[i], ind[i], cooked[i], repaints[i]>>

\* C21: a thread whose msg is none of 'r', 'h', 'q' does what a halted one
\* does: the trigger thread fires no trigger, the log writer takes nothing from
\* the log queues and writes no row, a display thread leaves its history and
\* window alone; a back-end that takes such a message stays in its loop.  None
\* of them ends on it, and the next message is taken from the message queue as
\* ever: 'r' sends the trigger thread back to the top of its loop, 'q' ends it.
C21_UnknownIsHalt ==
    [][ /\ Unknown(tmsg) =>
              /\ ticks' = ticks
              /\ tpc' = "done" => tmsg' = "q"
              /\ tmsg' # tmsg => /\ tmsg' = Head(qmsg[TrigMsg])
                                 /\ tmsg' = "r" => tpc' = "top"
        /\ Unknown(lmsg) =>
              /\ \A k \in 1..TsQ : Len(qfileio'[k]) >= Len(qfileio[k])
              /\ rows' = rows
              /\ lpc' = "done" => lmsg' = "q"
              /\ lmsg' # lmsg => lmsg' = Head(qmsg[LogMsg])
        /\ \A i \in Fed :
              /\ Unknown(dmsg[i]) =>
                    /\ FeedView(i)' = FeedView(i)
                    /\ dpc'[i] # "done"
                    /\ dmsg'[i] # dmsg[i] => dmsg'[i] = Head(qmsg[DispMsg(i)])
              /\ ( /\ bpc[i] = "run"
                   /\ qmsg[BackMsg(i)] # <<>>
                   /\ Unknown(Head(qmsg[BackMsg(i)])) ) => bpc'[i] = "run"
      ]_vars

\* the trigger thread took 'x', fired nothing, and is in its inner loop with
\* the next 'r' waiting
C21_Witness ==
    /\ ticks = 0
    /\ cmds = 2
    /\ tmsg = "x"
    /\ tpc = "inner"
    /\ qmsg[TrigMsg] = <<"r">>


\* ------------------------------- SpecClock: the trigger thread and its clock

\* "time.sleep(0.15)" in the inner loop of __trigger, in units of time
PollSleep == 3
\* "tnext - time.perf_counter() > 0.25", in units of time
Quarter == 5

\* the sample period is one of the two
InitClock ==
    /\ InitPipe
    /\ short = FALSE
    /\ unread = 0
    /\ InitCfgDone
    /\ InitFeed
    /\ \E p \in {PeriodShort, PeriodLong} : InitClockAt(p)
    /\ InitSensAt(3, 0, 5, 0, <<0, 0, 0, 28>>)
    /\ InitExtra

\* what a step of the trigger thread in SpecClock leaves alone apart from
\* its own variables and the queues it uses
ClockFrame ==
    /\ UNCHANGED <<mpc, midx, cmds, released, qdisplay,
                   lpc, lmsg, lidx, timestamp, valsensor, rows, discarded,
                   bpc, triggered, dpc, dmsg,
                   lastobs, edges, emitted, dput, convs, ticksAtTd, sentPushed>>
    /\ UNCHANGED <<busvars, short, unread, cfgvars, feedvars, sensvars, extravars, period>>

\* a trigger thread that leaves tnext where it is after a trigger
DeadlineKept(t, p) == t

\* "tnext += self.triggertime"
NextDeadline(t, p) == t + p

\* a trigger thread that keeps its old tnext when it takes 'r'
DeadlineOld(t, n) == t

\* "if msg == 'r': tnext = time.perf_counter()"
Restart(t, n) == n

\* time passes; a thread whose sleep has ended runs then or later
ClkTick ==
    /\ now < MaxNow
    /\ now' = now + 1
    /\ UNCHANGED <<qfileio, qmsg, busy, cur, ticks, tpc, tmsg>>
    /\ UNCHANGED <<tnext, wake, trigs, lastfire, gap, resetAt, firesSince>>
    /\ ClockFrame

\* the main thread puts message m on the message queue of the trigger thread
ClkMessage(m) ==
    /\ cmds < MaxMsgsClock
    /\ cmds' = cmds + 1
    /\ Broadcast({TrigMsg}, m)
    /\ UNCHANGED <<mpc, midx, released, qfileio, qdisplay, busy, cur, ticks,
                   tpc, tmsg, lpc, lmsg, lidx, timestamp, valsensor, rows, discarded,
                   bpc, triggered, dpc, dmsg,
                   lastobs, edges, emitted, dput, convs, ticksAtTd, sentPushed>>
    /\ UNCHANGED <<busvars, sidevars>>

\* the top of the loop with msg 'r': "time.sleep(tnext - time.perf_counter())"
\* if tnext is ahead, "tnext += self.triggertime", "self.sensors.trigger()",
\* "self.qfileio.put(time.time())"
ClkFire ==
    /\ tpc = "top"
    /\ tmsg = "r"
    /\ now >= tnext
    /\ CanPut(qfileio[TsQ], LogQCap)
    /\ tnext' = NextDeadline(tnext, period)
    /\ BroadcastTrigger(ticks + 1)
    /\ trigs' = trigs + 1
    /\ qfileio' = [qfileio EXCEPT ![TsQ] = Append(@, ticks + 1)]
    /\ ticks' = ticks + 1
    /\ tpc' = "fired"
    /\ wake' = now
    /\ gap' = IF lastfire >= 0 THEN now - lastfire ELSE -1
    /\ lastfire' = now
    /\ firesSince' = firesSince + 1
    /\ UNCHANGED <<qmsg, tmsg, now, resetAt>>
    /\ ClockFrame

\* "while(tnext - time.perf_counter() > 0.25 or msg != 'r')", after a trigger
\* or after the sleep of the loop: into the loop, or back to the top
ClkCond ==
    /\ tpc = "fired"
    /\ now >= wake
    /\ tpc' = IF tnext - now > Quarter \/ tmsg # "r" THEN "inner" ELSE "top"
    /\ UNCHANGED <<qfileio, qmsg, busy, cur, ticks, tmsg>>
    /\ UNCHANGED <<now, tnext, wake, trigs, lastfire, gap, resetAt, firesSince>>
    /\ ClockFrame

\* the body of the inner loop: take a message if there is one; 'r' sets tnext
\* to the time and breaks, 'q' breaks and ends the thread, otherwise
\* "time.sleep(0.15)"
ClkPoll ==
    LET mq == qmsg[TrigMsg]
    IN  /\ tpc = "inner"
        /\ IF Empty(mq)
             THEN /\ tpc' = "fired"
                  /\ wake' = now + PollSleep
                  /\ UNCHANGED <<qmsg, tmsg, tnext, lastfire, gap, resetAt, firesSince>>
             ELSE /\ qmsg' = [qmsg EXCEPT ![TrigMsg] = Tail(mq)]
                  /\ tmsg' = Head(mq)
                  /\ tpc' = IF Head(mq) = "r" THEN "top"
                            ELSE IF Head(mq) = "q" THEN "done"
                            ELSE "fired"
                  /\ tnext' = IF Head(mq) = "r" THEN Restart(tnext, now) ELSE tnext
                  /\ wake' = IF Head(mq) \in {"r", "q"} THEN wake ELSE now + PollSleep
                  /\ resetAt' = IF Head(mq) = "r" THEN now ELSE resetAt
                  /\ firesSince' = 0
                  /\ lastfire' = -1
                  /\ gap' = -1
        /\ UNCHANGED <<qfileio, busy, cur, ticks, now, trigs>>
        /\ ClockFrame

NextClock ==
    \/ ClkTick
    \/ \E m \in AnyMsgs : ClkMessage(m)
    \/ ClkFire
    \/ ClkCond
    \/ ClkPoll

SpecClock == InitClock /\ [][NextClock]_vars


\* C22: a step that issues a broadcast trigger or pushes a timestamp is a step
\* of the trigger thread with msg 'r' that does each exactly once, starts a
\* conversion on every sensor and moves tnext on by one period; with any other
\* msg neither happens; the timestamps pushed are as many as the triggers issued.
C22_OneTriggerOneTimestamp ==
    [][ /\ (trigs' # trigs \/ ticks' # ticks \/ qfileio'[TsQ] # qfileio[TsQ]) =>
              /\ tmsg = "r"
              /\ trigs' = trigs + 1
              /\ ticks' = ticks + 1
              /\ qfileio'[TsQ] = Append(qfileio[TsQ], ticks')
              /\ \A i \in Sensors : busy'[i] /\ cur'[i] = ticks'
              /\ tnext' = tnext + period
        /\ tmsg # "r" => UNCHANGED <<trigs, ticks, busy, cur>>
        /\ trigs' = ticks'
        /\ Len(qfileio'[TsQ]) = ticks'
      ]_vars

\* two triggers, a period apart, then 'h' taken
C22_Witness ==
    /\ trigs = 2
    /\ gap = -1
    /\ tmsg = "h"
    /\ now >= resetAt + period
    /\ resetAt >= 0


C24_SpacingIsPeriod ==
    gap = -1 \/ gap >= period - PollSleep


\* ---------------------------------------------------------------------------
\* The tempsensor object: read_status decodes the bytes of the converter, cooks
\* them, and the back-end makes a Sample of get_tempraw and get_tempcooked.
\* Temperatures are integers in units of 0.05 degree, slopes in 0.05 degree per
\* count, so that 273.15 and 9/5 are exact.
\* ---------------------------------------------------------------------------
MaxReads == 2

\* "mcp3421": (bit resolution, sample rate in 0.01 Hz, sample data mask,
\* configuration byte), by mode 0 .. 3
mcp3421 ==
    << <<12, 24000, 2047, 16>>, <<14, 6000, 8191, 20>>,
       <<16, 1500, 32767, 24>>, <<18, 375, 131071, 28>> >>

Modes == 0 .. 3
Units == 0 .. 2
get_resolution(m) == mcp3421[m + 1][1]
get_samplemask(m) == mcp3421[m + 1][3]
get_config(m) == mcp3421[m + 1][4]

\* the bytes the checks draw for each data byte of a frame
ByteVals == {0, 127, 128, 255}
\* the slopes and intercepts set_slope and set_intercept are given
Slopes == {5, 10}
Intercepts == {0, 25}

\* what read_i2c_block_data can return in mode m: three data bytes and the
\* status byte at 18 bits, two data bytes and the status byte otherwise; the
\* status byte is the configuration with or without bit 7 (not ready)
Frames(m) ==
    LET st == {get_config(m), get_config(m) + 128}
    IN  IF get_resolution(m) = 18
        THEN {<<a, b, c, x>> : a \in ByteVals, b \in ByteVals, c \in ByteVals, x \in st}
        ELSE {<<a, b, x>> : a \in ByteVals, b \in ByteVals, x \in st}

\* "b & 0x80" of a byte
Bit7(b) == (b \div 128) % 2 = 1

\* "mcpdata[2] + (mcpdata[1] << 8) + (mcpdata[0] << 16)" at 18 bits,
\* "mcpdata[1] + (mcpdata[0] << 8)" otherwise
Assemble(m, d) ==
    IF get_resolution(m) = 18 THEN d[3] + d[2] * 256 + d[1] * 65536
    ELSE d[2] + d[1] * 256

\* "self.status = mcpdata[3]" at 18 bits, "mcpdata[2]" otherwise
StatusOf(m, d) == IF get_resolution(m) = 18 THEN d[4] ELSE d[3]

\* "self.raw &= self.mcp3421[self.mode][2]": the mask is 2^k - 1
Unmasked(v, k) == v
Masked(v, k) == v % (k + 1)

\* the sign step: "if mcpdata[0] & 0x80: self.raw -= mask + 1"
Signed(m, d, v) == IF Bit7(d[1]) THEN v - (get_samplemask(m) + 1) ELSE v

\* the raw value read_status leaves in self.raw: decoded when the status byte
\* says ready, the assembled bytes as they are otherwise
Decode(m, d) ==
    IF Bit7(StatusOf(m, d)) THEN Assemble(m, d)
    ELSE Signed(m, d, Masked(Assemble(m, d), get_samplemask(m)))

\* "self.cooked = self.raw * self.slope + self.intercept"
Cook(v, sl, ic) == v * sl + ic

KelvinOffset == 5463
FahrOffset == 640
get_tempC(c) == c
get_tempK(c) == c + KelvinOffset
get_tempF(c) == (c * 9) \div 5 + FahrOffset
get_tempcooked(u, c) ==
    IF u = 0 THEN get_tempC(c)
    ELSE IF u = 1 THEN get_tempK(c)
    ELSE get_tempF(c)

SensFrame ==
    UNCHANGED <<pipevars, busvars, short, unread, cfgvars, feedvars, clockvars, extravars>>

\* one iteration of the loop of __sensoroneshottask on the bytes d: read_status,
\* the edge detector, and the Sample when a triggered conversion is ready
SensIter(d) ==
    /\ reads < MaxReads
    /\ LET ready == ~Bit7(StatusOf(mode, d))
           r == Decode(mode, d)
           c == IF ready THEN Cook(r, slope, intercept) ELSE scooked
           t == strig \/ ~ready
       IN  /\ mcpdata' = d
           /\ sraw' = r
           /\ scooked' = c
           /\ dataready' = IF ready THEN "True" ELSE "False"
           /\ IF t /\ ready
              THEN /\ strig' = FALSE
                   /\ sample' = <<r, get_tempcooked(units, c)>>
              ELSE /\ strig' = t
                   /\ UNCHANGED sample
    /\ reads' = reads + 1
    /\ UNCHANGED <<mode, units, slope, intercept>>
    /\ SensFrame

InitSensor ==
    /\ InitPipe
    /\ short = FALSE
    /\ unread = 0
    /\ InitCfgDone
    /\ InitFeed
    /\ InitClockAt(PeriodDefault)
    /\ InitExtra
    /\ \E m \in Modes, u \in Units, sl \in Slopes, ic \in Intercepts :
           InitSensAt(m, u, sl, ic, <<0, 0, 0, get_config(m)>>)

NextSensor == \E d \in Frames(mode) : SensIter(d)

SpecSensor == InitSensor /\ [][NextSensor]_vars

\* C25: every Sample carries cookedValue = rawValue * slope + intercept for its
\* own rawValue, whichever unit the sensor is configured with
C25_CookedIsLinear ==
    sample # <<>> => sample[2] = sample[1] * slope + intercept


\* the width W of a mode and the M = 2^W - 1 that goes with it
FullScale(m) == 2 ^ get_resolution(m) - 1

\* C26: in each of the four modes, with width W and M = 2^W - 1, the bytes of a
\* ready conversion decode to a raw value in [-(M+1)/2, -1] when the first bit
\* transmitted is set and in [0, M] otherwise, and the raw value, in the sensor
\* and in the Sample, fits in W bits
C26_RawInRange ==
    LET M == FullScale(mode)
        half == (M + 1) \div 2
    IN  /\ dataready = "True" =>
              /\ Bit7(mcpdata[1]) => sraw \in (0 - half) .. -1
              /\ ~Bit7(mcpdata[1]) => sraw \in 0 .. M
              /\ sraw \in (0 - half) .. (half - 1)
        /\ sample # <<>> => sample[1] \in (0 - half) .. (half - 1)

\* an 18-bit conversion whose first byte is 0x80 and whose other data bytes are
\* 0 was ready, decoded to the most negative value, and went into the Sample
C26_Witness ==
    /\ mode = 3
    /\ dataready = "True"
    /\ mcpdata = <<128, 0, 0, 28>>
    /\ sraw = 0 - 131072
    /\ sample # <<>>
    /\ sample[1] = sraw


\* C27: a halted display thread takes every queued pair off its display queue
\* and changes neither its history, its index, its current value nor the
\* window: while msg is 'h' no step changes those, the thread is never in the
\* drain loop, and it leaves its discard loop only with the display queue empty
C27_HaltedDiscards ==
    [][ \A i \in Fed :
            dmsg[i] = "h" =>
                /\ FeedView(i)' = FeedView(i)
                /\ drained'[i] = drained[i]
                /\ dpc[i] # "drain"
                /\ (dpc[i] = "discard" /\ dpc'[i] # "discard") => Empty(qdisplay[i])
                /\ (dpc[i] = "discard" /\ ~Empty(qdisplay[i]) /\ dpc'[i] # dpc[i]) => FALSE
      ]_vars

\* no message was ever sent, the back-end of sensor 1 has put two pairs, and
\* its display thread, halted, has left its discard loop with the queue empty
C27_Witness ==
    /\ cmds = 0
    /\ dmsg[1] = "h"
    /\ dput[1] >= 2
    /\ dpc[1] = "mail"
    /\ Empty(qdisplay[1])
    /\ ind[1] = 0
    /\ repaints[1] = 0

\* C28: a running display thread signals one repaint per drain cycle, after the
\* last pair of the cycle, however many pairs it drains
C28_OneRepaintPerCycle ==
    \A i \in Fed : /\ repaints[i] <= 1
                   /\ (dpc[i] = "mail" /\ drained[i] >= 1) => repaints[i] = 1


\* C29: 'r' and 'h' mean nothing to a back-end: an iteration of its loop that
\* takes one of them stays in the loop and does with the status it reads what
\* an iteration with no message does (the same triggered, the same Sample put
\* or not on both queues), and the thread leaves its loop only on taking 'q'
C29_RunHaltNoOp ==
    [][ \A i \in Sensors :
            LET mq == qmsg[BackMsg(i)]
                ready == ReadStatus(i)
                emit == Emits(triggered[i], ready)
                took == mq # <<>> /\ qmsg'[BackMsg(i)] = Tail(mq)
            IN  /\ (bpc[i] = "run" /\ bpc'[i] # "run") => (took /\ Head(mq) = "q")
                /\ (bpc[i] = "run" /\ took /\ Head(mq) \in {"r", "h"}) =>
                       /\ bpc'[i] = "run"
                       /\ triggered'[i] = (IF emit THEN FALSE ELSE Armed(triggered[i], ready))
                       /\ qfileio'[i] = IF emit THEN Append(qfileio[i], <<Addr(i), cur[i]>>)
                                        ELSE qfileio[i]
                       /\ qdisplay'[i] = IF emit THEN Append(qdisplay[i], <<cur[i], cur[i]>>)
                                         ELSE qdisplay[i]
      ]_vars

\* two messages were put and taken, every back-end is still in its loop, and
\* the back-end of sensor 1 has put a Sample for each of two conversions
C29_Witness ==
    /\ cmds >= 2
    /\ \A i \in Sensors : bpc[i] = "run" /\ Empty(qmsg[BackMsg(i)])
    /\ emitted[1] = 2
    /\ edges[1] = 2
    /\ convs[1] = 2


\* message queue k has taken exactly the one message m
GotOne(k, m) == qmsg'[k] = Append(qmsg[k], m)

\* every message queue has taken exactly the one message m
AllGot(m) == \A k \in MsgQs : GotOne(k, m)

\* the message queues of the display threads, and only they, have taken
\* exactly the one message m
OnlyDisplaysGot(m) ==
    /\ \A i \in Sensors : GotOne(DispMsg(i), m)
    /\ \A i \in Sensors : qmsg'[BackMsg(i)] = qmsg[BackMsg(i)]
    /\ qmsg'[LogMsg] = qmsg[LogMsg]
    /\ qmsg'[TrigMsg] = qmsg[TrigMsg]

\* C30: startsensors puts one 'r' and stopsensors one 'h' on each of the 2n+2
\* message queues; pausedisplayupdates puts one 'h' and resumedisplayupdates
\* one 'r' on each of the n message queues of the display threads and leaves
\* those of the back-ends, the log writer and the trigger thread as they are;
\* none of the four touches a log queue or a display queue
C30_BroadcastTargets ==
    [][ /\ Cardinality(MsgQs) = 2 * NumSensors + 2
        /\ StartSensors(MaxCmds) => AllGot("r")
        /\ StopSensors(MaxCmds) => AllGot("h")
        /\ PauseDisplay(MaxCmds) => OnlyDisplaysGot("h")
        /\ ResumeDisplay(MaxCmds) => OnlyDisplaysGot("r")
        /\ ( \/ StartSensors(MaxCmds) \/ StopSensors(MaxCmds)
             \/ PauseDisplay(MaxCmds) \/ ResumeDisplay(MaxCmds) ) =>
               /\ qfileio' = qfileio
               /\ qdisplay' = qdisplay
      ]_vars

\* pausedisplayupdates was called on the created framework: one 'h' waits on
\* the message queue of each display thread and every other one is empty
C30_Witness ==
    /\ cmds = 1
    /\ mpc = "idle"
    /\ \A i \in Sensors : qmsg[DispMsg(i)] = <<"h">> /\ Empty(qmsg[BackMsg(i)])
    /\ Empty(qmsg[LogMsg])
    /\ Empty(qmsg[TrigMsg])


\* timestamps the log writer has taken: those put (one per trigger fired, and
\* the one of endsensorframework) less those still in the timestamp queue
TsTaken == ticks + (IF sentPushed THEN 1 ELSE 0) - Len(qfileio[TsQ])

\* rows the log writer has collected, written or not, and the one it is collecting
RowAttempts == Len(rows) + discarded + (IF lpc = "samples" THEN 1 ELSE 0)

\* C31: every running iteration of the log writer takes one timestamp, then one
\* Sample from each log queue in the order of the sensors, and then at most one
\* message, the oldest; a timestamp is taken only with msg 'r', and the
\* timestamps taken are as many as the rows attempted
C31_OneRowPerTimestamp ==
    [][ /\ TsTaken = RowAttempts
        /\ TsTaken' = RowAttempts'
        /\ Len(qfileio'[TsQ]) < Len(qfileio[TsQ]) =>
               /\ lpc = "top" /\ lmsg = "r"
               /\ qfileio'[TsQ] = Tail(qfileio[TsQ])
               /\ timestamp' = Head(qfileio[TsQ])
               /\ lpc' = "samples" /\ lidx' = 1
        /\ \A i \in Sensors :
               Len(qfileio'[i]) < Len(qfileio[i]) =>
                   /\ lpc = "samples" /\ lidx = i
                   /\ qfileio'[i] = Tail(qfileio[i])
                   /\ valsensor'[i] = Head(qfileio[i])
                   /\ i < NumSensors => (lpc' = "samples" /\ lidx' = i + 1)
                   /\ i = NumSensors => lpc' = "mail"
        /\ (lpc = "samples" /\ lpc' # "samples") => lidx = NumSensors
        /\ lmsg' # lmsg =>
               /\ lpc = "mail" /\ lpc' # "mail"
               /\ qmsg[LogMsg] # <<>>
               /\ lmsg' = Head(qmsg[LogMsg])
               /\ qmsg'[LogMsg] = Tail(qmsg[LogMsg])
        /\ Len(qmsg'[LogMsg]) < Len(qmsg[LogMsg]) => lpc = "mail"
      ]_vars

\* the log writer wrote two rows, then took the 'h' of stopsensors
C31_Witness ==
    /\ Len(rows) = 2
    /\ discarded = 0
    /\ lmsg = "h"
    /\ lpc = "top"
    /\ Len(qfileio[TsQ]) = ticks - 2


\* ---------------------------------------------------------------------------
\* The log file.  A text is a sequence of characters, each given by the number
\* of bytes it is written as (1 for ASCII, 2 for a letter outside it); len()
\* counts characters, the file holds bytes, and seek() counts bytes.
\* ---------------------------------------------------------------------------
MaxPrefix == 2
MaxRowsFile == 2

\* the widths of the fixed texts
NameLabel == 10
StampLen == 18
StartLabel == 12
AscTime == 24
EndLabel == 10
PeriodLabel == 15
PeriodTail == 10
RowStamp == 24
RowSensor == 22

\* n ASCII characters
Ascii(n) == [k \in 1..n |-> 1]

\* len(text)
CharLen(text) == Len(text)

\* the bytes "datalog.write(text)" writes, each marked with tag
RECURSIVE Encode(_, _)
Encode(text, tag) ==
    IF text = <<>> THEN <<>>
    ELSE [k \in 1..Head(text) |-> tag] \o Encode(Tail(text), tag)

\* "log = time.strftime(self.logfileprefix + '%Y%m%d%H%M%S.csv')"
LogName(p) == p \o Ascii(StampLen)
\* "'Filename: ' + log + '\n'"
NameLine(p) == Ascii(NameLabel) \o LogName(p) \o Ascii(1)
\* "'Start time: ' + time.asctime() + '\n'"
StartLine == Ascii(StartLabel + AscTime + 1)
\* "'dnE time: ' + time.asctime() + '\n'"
PlaceLine == Ascii(EndLabel + AscTime + 1)
\* "'Sample period: ' + str(self.sampleperiod) + ' seconds.\n'"
PeriodLine(sp) == Ascii(PeriodLabel) \o sp \o Ascii(PeriodTail)
\* "'End time: ' + time.asctime()"
EndText == Ascii(EndLabel + AscTime)
\* a data row: the time, three fields per sensor, the last comma made '\n'
RowLine == Ascii(RowStamp + RowSensor * NumSensors)

\* "datalog.seek(pos)" and "datalog.write" of bytes data on file f
Overwrite(f, pos, data) ==
    LET n == IF Len(f) > pos + Len(data) THEN Len(f) ELSE pos + Len(data)
    IN  [k \in 1..n |-> IF k > pos /\ k <= pos + Len(data) THEN data[k - pos] ELSE f[k]]

FileFrame ==
    UNCHANGED <<pipevars, busvars, short, unread, cfgvars, feedvars, clockvars, sensvars,
                pairvars, latevars>>

\* __logwriter opens the file and writes the four header lines
FileHeader ==
    /\ fpc = "open"
    /\ datalog' = Encode(NameLine(logfileprefix), "F") \o Encode(StartLine, "S")
                  \o Encode(PlaceLine, "P") \o Encode(PeriodLine(sampleperiod), "N")
    /\ endstamp' = CharLen(NameLine(logfileprefix)) + CharLen(StartLine)
    /\ fpc' = "rows"
    /\ UNCHANGED <<logfileprefix, sampleperiod, nrows>>
    /\ FileFrame

\* a row is written at the end of the file
FileRow ==
    /\ fpc = "rows"
    /\ nrows < MaxRowsFile
    /\ datalog' = datalog \o Encode(RowLine, "R")
    /\ nrows' = nrows + 1
    /\ UNCHANGED <<logfileprefix, sampleperiod, endstamp, fpc>>
    /\ FileFrame

\* 'q' is taken: "datalog.seek(endstamp)", "datalog.write('End time: ' + ...)",
\* "datalog.close()"
FileFinish ==
    /\ fpc = "rows"
    /\ datalog' = Overwrite(datalog, endstamp, Encode(EndText, "E"))
    /\ fpc' = "closed"
    /\ UNCHANGED <<logfileprefix, sampleperiod, endstamp, nrows>>
    /\ FileFrame

\* the texts of at most n characters, ASCII or not
RECURSIVE Texts(_)
Texts(n) ==
    IF n = 0 THEN {<<>>}
    ELSE Texts(n - 1) \cup {Append(t, w) : t \in Texts(n - 1), w \in {1, 2}}

\* str() of a sample period: '1', '0.5', '0.25'
PeriodTexts == {Ascii(1), Ascii(3), Ascii(4)}

InitFile ==
    /\ InitPipe
    /\ short = FALSE
    /\ unread = 0
    /\ InitCfgDone
    /\ InitFeed
    /\ InitClockAt(PeriodDefault)
    /\ InitSensAt(3, 0, 5, 0, <<0, 0, 0, 28>>)
    /\ InitPairAt("h")
    /\ InitLate
    /\ \E p \in Texts(MaxPrefix), sp \in PeriodTexts : InitFileAt(p, sp)

NextFile ==
    \/ FileHeader
    \/ FileRow
    \/ FileFinish

SpecFile == InitFile /\ [][NextFile]_vars

\* the file as it should be when the thread has ended on 'q': the four header
\* lines with the 34 bytes before the newline of the third rewritten, the rows
FileExpected ==
    Encode(NameLine(logfileprefix), "F") \o Encode(StartLine, "S")
    \o Encode(EndText, "E") \o <<"P">> \o Encode(PeriodLine(sampleperiod), "N")
    \o [k \in 1..(nrows * Len(RowLine)) |-> "R"]

\* C32: when the log writer has ended on 'q', the end time stands where the
\* placeholder stood, at the byte where the Start time line ends, in the same
\* width, and no other byte of the file has changed
C32_EndTimeInPlace ==
    fpc = "closed" => datalog = FileExpected


\* ---------- SpecMail: startsensors at most once, first, and stopsensors
\* repeatedly.  The display threads are not followed: their message queues
\* only fill.
MaxCmdsMail == 10
MaxTicksMail == 1

\* the first call: startsensors
MailStart ==
    /\ cmds = 0
    /\ StartSensors(MaxCmdsMail)

\* every other call: stopsensors
MailStop == StopSensors(MaxCmdsMail)

\* the trigger thread, the back-ends and the log writer of a created
\* framework, with those calls made at any moment; the trigger fires once, so
\* the log writer takes the 'r' after its row and no later message
NextMail ==
    \/ MailStart
    \/ MailStop
    \/ \E i \in Sensors : ConvComplete(i)
    \/ \E i \in Sensors : BackIter(i)
    \/ TrigFire(MaxTicksMail)
    \/ TrigPoll
    \/ TrigWait
    \/ LogTakeTs
    \/ LogTakeSample
    \/ LogMail

SpecMail == Init /\ [][NextMail]_vars

\* the log writer, running, waits in "self.qfileio[len(self.qfileio)-1].get()"
\* and the trigger thread, halted, will put no timestamp
LoggerParked ==
    /\ lpc = "top"
    /\ lmsg = "r"
    /\ Empty(qfileio[TsQ])
    /\ tmsg = "h"
    /\ tpc = "inner"

\* the trigger thread and the back-ends have taken every message put so far
OthersUpToDate ==
    /\ Empty(qmsg[TrigMsg])
    /\ \A i \in Sensors : Empty(qmsg[BackMsg(i)])

\* C33: no put of startsensors, stopsensors or the others finds a message queue
\* full: also with the log writer waiting on a log queue, and the threads that
\* poll their message queues up to date, the message queue of the log writer
\* has room for the next message
C33_MailboxHasRoom ==
    (LoggerParked /\ OthersUpToDate) => CanPut(qmsg[LogMsg], MsgQCap)


\* ---------------------------------------------------------------------------
\* SpecPair: one display queue with its two producers, the back-end of the
\* sensor and endsensorframework, and its consumer, the display thread.  An
\* element is <<push, part>>: push k >= 1 is the k-th Sample of the back-end,
\* push 0 the dummy pair of endsensorframework; part is "raw" or "cooked".
\* "with threading.Lock():" makes a lock no other thread has, so the two puts
\* of a producer and the two gets of the consumer are separate steps.
\* ---------------------------------------------------------------------------
MaxPushes == 2

PairFrame ==
    UNCHANGED <<pipevars, busvars, short, unread, cfgvars, feedvars, clockvars, sensvars,
                filevars, latevars>>

\* "self.qdisplay.put(raw)" of the back-end
PairBackRaw ==
    /\ backpc = "idle"
    /\ pushes < MaxPushes
    /\ dq' = Append(dq, <<pushes + 1, "raw">>)
    /\ pushes' = pushes + 1
    /\ backpc' = "mid"
    /\ UNCHANGED <<tdpc, feedpc, feedmsg, feedq, first, taken, shown>>
    /\ PairFrame

\* "self.qdisplay.put(cooked)" of the back-end
PairBackCooked ==
    /\ backpc = "mid"
    /\ dq' = Append(dq, <<pushes, "cooked">>)
    /\ backpc' = "idle"
    /\ UNCHANGED <<pushes, tdpc, feedpc, feedmsg, feedq, first, taken, shown>>
    /\ PairFrame

\* endsensorframework: "self.qmsg[q].put('q')" for the display thread
PairTdQuit ==
    /\ tdpc = "idle"
    /\ feedq' = Append(feedq, "q")
    /\ tdpc' = "dummy"
    /\ UNCHANGED <<dq, pushes, backpc, feedpc, feedmsg, first, taken, shown>>
    /\ PairFrame

\* endsensorframework: "self.qdisplay[q].put(0) # raw"
PairTdRaw ==
    /\ tdpc = "dummy"
    /\ dq' = Append(dq, <<0, "raw">>)
    /\ tdpc' = "mid"
    /\ UNCHANGED <<pushes, backpc, feedpc, feedmsg, feedq, first, taken, shown>>
    /\ PairFrame

\* endsensorframework: "self.qdisplay[q].put(0) # cooked"
PairTdCooked ==
    /\ tdpc = "mid"
    /\ dq' = Append(dq, <<0, "cooked">>)
    /\ tdpc' = "join"
    /\ UNCHANGED <<pushes, backpc, feedpc, feedmsg, feedq, first, taken, shown>>
    /\ PairFrame

\* the display thread at "while(not self.qdisplay.empty())", in the drain loop
\* (msg 'r') as in the discard loop: the first get, or the end of the loop;
\* with msg 'q' the thread ends
PairFeedFirst ==
    /\ feedpc = "test"
    /\ IF feedmsg = "q"
         THEN /\ feedpc' = "done"
              /\ UNCHANGED <<dq, first>>
         ELSE IF dq = <<>>
                THEN /\ feedpc' = "mail"
                     /\ UNCHANGED <<dq, first>>
                ELSE /\ first' = Head(dq)
                     /\ dq' = Tail(dq)
                     /\ feedpc' = "second"
    /\ UNCHANGED <<pushes, backpc, tdpc, feedmsg, feedq, taken, shown>>
    /\ PairFrame

\* the second get of the pair: blocks while the queue is empty; in the drain
\* loop the pair goes into self.raw[self.ind] and self.cooked
PairFeedSecond ==
    /\ feedpc = "second"
    /\ dq # <<>>
    /\ taken' = Append(taken, <<first, Head(dq)>>)
    /\ shown' = IF feedmsg = "r" THEN Append(shown, <<first, Head(dq)>>) ELSE shown
    /\ dq' = Tail(dq)
    /\ first' = <<>>
    /\ feedpc' = "test"
    /\ UNCHANGED <<pushes, backpc, tdpc, feedmsg, feedq>>
    /\ PairFrame

\* "time.sleep(0.25)", "if not self.qmsg.empty(): msg = self.qmsg.get()"
PairFeedMail ==
    /\ feedpc = "mail"
    /\ IF feedq = <<>>
         THEN UNCHANGED <<feedmsg, feedq>>
         ELSE /\ feedmsg' = Head(feedq)
              /\ feedq' = Tail(feedq)
    /\ feedpc' = "test"
    /\ UNCHANGED <<dq, pushes, backpc, tdpc, first, taken, shown>>
    /\ PairFrame

InitPair ==
    /\ InitPipe
    /\ short = FALSE
    /\ unread = 0
    /\ InitCfgDone
    /\ InitFeed
    /\ InitClockAt(PeriodDefault)
    /\ InitSensAt(3, 0, 5, 0, <<0, 0, 0, 28>>)
    /\ InitFileAt(<<1>>, <<1>>)
    /\ InitLate
    /\ \E m \in {"r", "h"} : InitPairAt(m)

NextPair ==
    \/ PairBackRaw
    \/ PairBackCooked
    \/ PairTdQuit
    \/ PairTdRaw
    \/ PairTdCooked
    \/ PairFeedFirst
    \/ PairFeedSecond
    \/ PairFeedMail

SpecPair == InitPair /\ [][NextPair]_vars

\* C34: every pair the display thread takes from its display queue, to show it
\* or to discard it, is the raw and the cooked element of one and the same put
C34_PairsStayTogether ==
    \A k \in 1..Len(taken) :
        /\ taken[k][1][1] = taken[k][2][1]
        /\ taken[k][1][2] = "raw"
        /\ taken[k][2][2] = "cooked"


\* C36: what a display thread puts into its history and its current value are
\* values its back-end put: never an element of the dummy pair of
\* endsensorframework
C36_NoDummyInHistory ==
    \A k \in 1..Len(shown) : shown[k][1][1] # 0 /\ shown[k][2][1] # 0


\* ------------------------------------------------- the address of a Sample

\* the state outside the variables of the specifications below
InitEarly ==
    /\ InitPipe
    /\ short = FALSE
    /\ unread = 0
    /\ InitCfgDone
    /\ InitFeed
    /\ InitClockAt(PeriodDefault)
    /\ InitSensAt(3, 0, 5, 0, <<0, 0, 0, 28>>)
    /\ InitFileAt(<<1>>, <<1>>)
    /\ InitPairAt("h")

\* tempsensor.i2caddress: the eight bus addresses 0x68 .. 0x6f
NumAddresses == 8
i2caddress == [k \in 1 .. NumAddresses |-> AddrBase + (k - 1)]
BusAddresses == {i2caddress[k] : k \in DOMAIN i2caddress}
AddrIndexes == 0 .. NumAddresses - 1

\* "self.i2caddress.index(address)", counted from 0 as Python does
IndexOf(a) == (CHOOSE k \in DOMAIN i2caddress : i2caddress[k] = a) - 1

\* a tempsensor that knows no address: "self.i2caddrind = -1", "self.address = 0"
NoAddress == [i2caddrind |-> -1, address |-> 0]

set_addressNone(a) == NoAddress

\* tempsensor.set_address(address): the index and the bus address it leaves
set_address(a) ==
    IF a \in AddrIndexes
      THEN [i2caddrind |-> a, address |-> i2caddress[a + 1]]
      ELSE IF a \in BusAddresses
             THEN [i2caddrind |-> IndexOf(a), address |-> i2caddress[IndexOf(a) + 1]]
             ELSE NoAddress

\* the values the 'address' entry of a slot is given here: absent (-1), the
\* eight indexes, the eight bus addresses, and integers that are neither
AbsentAddress == -1
StrayAddresses == {8, 103, 112}
CfgAddresses == {AbsentAddress} \cup AddrIndexes \cup BusAddresses \cup StrayAddresses

MaxAddrPuts == 2
RawVals == {0, 5}

AddrFrame == UNCHANGED <<pipevars, busvars, short, unread, cfgvars, feedvars, clockvars,
                         sensvars, filevars, pairvars, optvars, loopvars, modevars>>

\* gensensorframework for the slot: no sensor when the address is -1, else
\* tempsensor(address, ...) whose __init__ calls set_address(address)
AddrGen ==
    /\ apc = "cfg"
    /\ IF cfgaddress = AbsentAddress
         THEN /\ apc' = "absent"
              /\ UNCHANGED <<i2caddrind, address>>
         ELSE /\ apc' = "run"
              /\ i2caddrind' = set_address(cfgaddress).i2caddrind
              /\ address' = set_address(cfgaddress).address
    /\ UNCHANGED <<cfgaddress, addrq, aputs, atook, arows>>
    /\ AddrFrame

\* the back-end: "self.qfileio.put((self.sensor.address,raw,cooked))"
AddrPut(r) ==
    /\ apc = "run"
    /\ Len(aputs) < MaxAddrPuts
    /\ CanPut(addrq, LogQCap)
    /\ addrq' = Append(addrq, <<address, r>>)
    /\ aputs' = Append(aputs, address)
    /\ UNCHANGED <<cfgaddress, i2caddrind, address, apc, atook, arows>>
    /\ AddrFrame

\* endsensorframework: "self.qfileio[i].put((0,0,0.0))"
AddrEnd ==
    /\ apc = "run"
    /\ CanPut(addrq, LogQCap)
    /\ addrq' = Append(addrq, Sentinel)
    /\ apc' = "ended"
    /\ UNCHANGED <<cfgaddress, i2caddrind, address, aputs, atook, arows>>
    /\ AddrFrame

\* __logwriter: "valsensor[i] = self.qfileio[i].get()", then the row is
\* written "if valsensor[0][0] != 0"
AddrLog ==
    /\ addrq # <<>>
    /\ addrq' = Tail(addrq)
    /\ IF Head(addrq)[1] # 0
         THEN arows' = Append(arows, Head(addrq))
         ELSE UNCHANGED arows
    /\ atook' = atook + 1
    /\ UNCHANGED <<cfgaddress, i2caddrind, address, apc, aputs>>
    /\ AddrFrame

InitAddr ==
    /\ InitEarly
    /\ InitOpt
    /\ InitLoopAt(<<3>>)
    /\ InitMode
    /\ \E a \in CfgAddresses : InitAddrAt(a)

NextAddr ==
    \/ AddrGen
    \/ \E r \in RawVals : AddrPut(r)
    \/ AddrEnd
    \/ AddrLog

SpecAddr == InitAddr /\ [][NextAddr]_vars

\* the slots the claim speaks of: an index 0 .. 7 or a bus address 0x68 .. 0x6f
AddrInScope == cfgaddress \in AddrIndexes \cup BusAddresses

\* the Samples of the back-end that the log thread has taken so far
SamplesTaken == IF atook <= Len(aputs) THEN atook ELSE Len(aputs)

\* C35: for a slot whose address is an index 0 .. 7 or one of 0x68 .. 0x6f, every
\* Sample the back-end puts into the log queue carries one of 0x68 .. 0x6f, never
\* the address 0 of the end-of-file tuple, and the log thread writes a row for
\* every Sample it takes
C35_SampleAddressNotSentinel ==
    AddrInScope =>
        /\ \A k \in DOMAIN aputs : aputs[k] \in BusAddresses
        /\ (apc \in {"run", "ended"} => address \in BusAddresses)
        /\ Len(arows) = SamplesTaken

C35_Witness ==
    /\ cfgaddress = 7
    /\ apc = "ended"
    /\ Len(aputs) = MaxAddrPuts
    /\ atook = MaxAddrPuts + 1
    /\ Len(arows) = MaxAddrPuts
    /\ arows[1][1] = 111


\* C37: a step in which a trigger thread whose msg is 'r' takes another 'r'
\* from its message queue leaves tnext as it was, issues no trigger and puts
\* no timestamp
C37_RunWhileRunningKeepsSchedule ==
    [][ ( /\ tmsg = "r"
          /\ qmsg[TrigMsg] # <<>>
          /\ Head(qmsg[TrigMsg]) = "r"
          /\ qmsg'[TrigMsg] = Tail(qmsg[TrigMsg]) ) =>
              /\ tnext' = tnext
              /\ trigs' = trigs
              /\ qfileio'[TsQ] = qfileio[TsQ] ]_vars


\* ------------------------------------------------ jtlog.py: get_cfg, -s options

\* "maxsensors = 8", "cfgmodes = 4"
maxsensors == 8
cfgmodes == 4

MaxOpts == 10

\* int(arg) of a -s option: 0 is the place holder of an absent sensor, 1 .. 4 a
\* mode, anything else is refused
OptArgs == {-1, 0, 1, 5}

\* "len(sensor) > maxsensors"
TooMany(n) == n > maxsensors

\* "tempsensor(s,int(arg)-1,0)": the index, bus address and mode of the object
NewSensor(a, m) ==
    [i2caddrind |-> set_address(a).i2caddrind, address |-> set_address(a).address,
     mode |-> m]

OptFrame == UNCHANGED <<pipevars, busvars, short, unread, cfgvars, feedvars, clockvars,
                        sensvars, filevars, pairvars, addrvars, loopvars, modevars>>

\* one pass of "for opt, arg in opts" for a -s option whose int(arg) is a;
\* found tells whether write_config reaches a device
OptSensor(a, found) ==
    /\ optpc = "parse"
    /\ nopts < MaxOpts
    /\ nopts' = nopts + 1
    /\ IF TooMany(Len(optsensor))
         THEN /\ optpc' = "toomany"
              /\ UNCHANGED <<optsensor, opts>>
         ELSE IF a \in 1 .. cfgmodes
                THEN /\ optsensor' = Append(optsensor, NewSensor(opts, a - 1))
                     /\ IF found
                          THEN /\ opts' = opts + 1
                               /\ UNCHANGED optpc
                          ELSE /\ optpc' = "notfound"
                               /\ UNCHANGED opts
                ELSE IF a \notin 0 .. cfgmodes
                       THEN /\ optpc' = "invalid"
                            /\ UNCHANGED <<optsensor, opts>>
                       ELSE /\ opts' = opts + 1
                            /\ UNCHANGED <<optsensor, optpc>>
    /\ OptFrame

\* the options are used up
OptDone ==
    /\ optpc = "parse"
    /\ optpc' = "done"
    /\ UNCHANGED <<optsensor, opts, nopts>>
    /\ OptFrame

InitOptSpec ==
    /\ InitEarly
    /\ InitAddrAt(-1)
    /\ InitLoopAt(<<3>>)
    /\ InitMode
    /\ InitOpt

NextOpt ==
    \/ \E a \in OptArgs, found \in BOOLEAN : OptSensor(a, found)
    \/ OptDone

SpecOpt == InitOptSpec /\ [][NextOpt]_vars

\* C39: once get_cfg has taken more than eight -s options it has stopped with
\* an error (the too-many-sensors error when the ninth option is well formed),
\* and every sensor it has made has a bus address index 0 .. 7
C39_AtMostEightOptions ==
    /\ nopts > maxsensors => optpc \in {"toomany", "invalid", "notfound"}
    /\ \A k \in DOMAIN optsensor : optsensor[k].i2caddrind \in AddrIndexes


\* ------------------------------------------------ jtlog.py: the main loop

MaxPasses == 65
MaxLoopSensors == 2

\* tempsensor.get_samplerate, in 0.01 Hz
get_samplerate(m) == mcp3421[m + 1][2]

\* "sfreq": the highest sample rate among the sensors of modes r
RECURSIVE Highest(_, _, _)
Highest(r, k, f) ==
    IF k > Len(r) THEN f
    ELSE Highest(r, k + 1, IF f < get_samplerate(r[k]) THEN get_samplerate(r[k]) ELSE f)

sfreq(r) == Highest(r, 1, get_samplerate(r[1]))

\* "number of samples to be discarded before logging"
discard == 0

\* a loop that leaves the counter of a sensor it has read at 1
ReloadOne(ini) == 1

\* "sdowncount[i] = sdowncountini[i]"
Reload(ini) == ini

\* the lists of modes of one to MaxLoopSensors sensors
RECURSIVE ModeLists(_)
ModeLists(n) ==
    IF n = 0 THEN {<<>>}
    ELSE LET shorter == ModeLists(n - 1)
         IN  shorter \cup {Append(r, m) : r \in {x \in shorter : Len(x) = n - 1}, m \in Modes}

LoopFrame == UNCHANGED <<pipevars, busvars, short, unread, cfgvars, feedvars, clockvars,
                         sensvars, filevars, pairvars, addrvars, optvars, modevars>>

\* "sdowncountini.append(sfreq / sensor[i].get_samplerate())" and
\* "sdowncount.append(1)" for every sensor; every quotient of two sample rates
\* of the table is a whole number
LoopSetup ==
    /\ looppc = "setup"
    /\ sdowncountini' = [i \in DOMAIN rates |-> sfreq(rates) \div get_samplerate(rates[i])]
    /\ sdowncount' = [i \in DOMAIN rates |-> 1]
    /\ looppc' = "loop"
    /\ UNCHANGED <<rates, scount, passes, readat, loglines>>
    /\ LoopFrame

\* the keys "sys.stdin.read()" returns here: none, 'q', or another key
Keys == {"", "q", "x"}
exit_cmd == {"q", "Q"}

\* one pass of "while scount < totalsamples" in which the keyboard gives key:
\* for every sensor, read it and reload its counter if the counter is 1, else
\* count down; the branch of the last sensor writes the line end when
\* scount >= discard; then KeyboardInterrupt if key is an exit command, else
\* "scount += 1"
LoopPass(key) ==
    /\ looppc = "loop"
    /\ passes < MaxPasses
    /\ sdowncount' = [i \in DOMAIN rates |->
                        IF sdowncount[i] = 1 THEN Reload(sdowncountini[i])
                        ELSE sdowncount[i] - 1]
    /\ readat' = [i \in DOMAIN rates |->
                        IF sdowncount[i] = 1 THEN Append(readat[i], passes)
                        ELSE readat[i]]
    /\ loglines' = IF scount >= discard THEN loglines + 1 ELSE loglines
    /\ passes' = passes + 1
    /\ IF key \in exit_cmd
         THEN /\ looppc' = "end"
              /\ UNCHANGED scount
         ELSE /\ scount' = scount + 1
              /\ UNCHANGED looppc
    /\ UNCHANGED <<rates, sdowncountini>>
    /\ LoopFrame

InitLoop ==
    /\ InitEarly
    /\ InitAddrAt(-1)
    /\ InitOpt
    /\ InitMode
    /\ \E r \in ModeLists(MaxLoopSensors) \ {<<>>} : InitLoopAt(r)

NextLoop ==
    \/ LoopSetup
    \/ \E key \in Keys : LoopPass(key)

SpecLoop == InitLoop /\ [][NextLoop]_vars

\* passes between two reads of sensor i: fastest rate / rate of sensor i
PassesPerRead(i) ==
    LET fastest == CHOOSE f \in {get_samplerate(rates[k]) : k \in DOMAIN rates} :
                       \A k \in DOMAIN rates : get_samplerate(rates[k]) <= f
    IN  fastest \div get_samplerate(rates[i])

\* C38: after any number of passes, sensor i has been read in the first pass
\* and in every (fastest rate / rate of sensor i)-th pass after it and in no
\* other, and the log file has one line end per pass
C38_ReadEveryRatioPasses ==
    looppc \in {"loop", "end"} =>
        /\ \A i \in DOMAIN rates :
              /\ \A k \in DOMAIN readat[i] : readat[i][k] = (k - 1) * PassesPerRead(i)
              /\ \A p \in 0 .. passes - 1 :
                    p % PassesPerRead(i) = 0 => \E k \in DOMAIN readat[i] : readat[i][k] = p
        /\ loglines = passes

C38_Witness ==
    /\ rates = <<0, 3>>
    /\ passes = 65
    /\ readat[2] = <<0, 64>>
    /\ Len(readat[1]) = 65
    /\ loglines = 65


\* ------------------------------------------------ ti2c.py: tempsensor.set_mode

MaxModeCalls == 3

\* the integers given to __init__ and set_mode as mode
ModeArgs == -5 .. 5

\* "len(self.mcp3421)-1"
LastMode == Len(mcp3421) - 1

\* tempsensor.set_mode(mode) on an object whose self.mode is old: the tests
\* are on self.mode, the argument is stored in the last branch
set_mode(old, m) ==
    IF old < 0 THEN 0
    ELSE IF old > LastMode THEN LastMode
    ELSE m

\* the integers Python accepts as an index of a list of the length of mcp3421
Indexable(k) == k \in -Len(mcp3421) .. LastMode

ModeFrame == UNCHANGED <<pipevars, busvars, short, unread, cfgvars, feedvars, clockvars,
                         sensvars, filevars, pairvars, addrvars, optvars, loopvars>>

\* tempsensor.__init__(address, mode, units): "self.set_mode(mode)", then
\* "self.mcp3421[self.mode][3]" and "self.slope_intercept[mode][0]", which
\* raise IndexError for an index outside the list
ModeInit(m) ==
    /\ objpc = "class"
    /\ modewas' = smode
    /\ modearg' = m
    /\ smode' = set_mode(smode, m)
    /\ objpc' = IF Indexable(set_mode(smode, m)) /\ Indexable(m) THEN "built" ELSE "IndexError"
    /\ UNCHANGED modecalls
    /\ ModeFrame

\* set_mode(m) on the object
ModeSet(m) ==
    /\ objpc = "built"
    /\ modecalls < MaxModeCalls
    /\ modecalls' = modecalls + 1
    /\ modewas' = smode
    /\ modearg' = m
    /\ smode' = set_mode(smode, m)
    /\ UNCHANGED objpc
    /\ ModeFrame

InitModeSpec ==
    /\ InitEarly
    /\ InitAddrAt(-1)
    /\ InitOpt
    /\ InitLoopAt(<<3>>)
    /\ InitMode

NextMode ==
    \/ \E m \in ModeArgs : ModeInit(m)
    \/ \E m \in ModeArgs : ModeSet(m)

SpecMode == InitModeSpec /\ [][NextMode]_vars

\* C40: the mode of a constructed tempsensor, after any number of set_mode
\* calls, is one of 0 .. 3: the last argument given when that is in 0 .. 3,
\* 0 when it was below and 3 when it was above
C40_ModeInRange ==
    objpc = "built" =>
        /\ smode \in Modes
        /\ modearg \in Modes => smode = modearg
        /\ modearg < 0 => smode = 0
        /\ modearg > LastMode => smode = LastMode

====
